---------------------------- MODULE Spec2Model ----------------------------
(***************************************************************************)
(* midgard-yarn-strict: the peer-dependency resolver (node-dependency-     *)
(* graph: Graph and createDependencyGraph) and the installer               *)
(* (local-package-store: installLocalStore).                               *)
(*                                                                         *)
(* Spec        the resolver: one behaviour per input (manifests,           *)
(*             resolution map, failOnMissingPeerDependencies), one action  *)
(*             per phase of createDependencyGraph and per outcome of one    *)
(*             iteration of its peer-resolution loop.                      *)
(* InstallSpec the installer: one behaviour per input graph and initial    *)
(*             file system, one action per file-system operation.          *)
(***************************************************************************)
EXTENDS Integers, Sequences, FiniteSets, TLC

VARIABLES
  \* ---- createDependencyGraph ----
  manifests,      \* PackageManifest[] (input)
  resolutionMap,  \* name -> range -> version (input)
  failOnMissingPeerDependencies,  \* "undefined" | "true" | "false" (input)
  graph,          \* the Graph object: nodes, reversedNodes, links, ...
  peerDeps,       \* the queue of pending peer links
  watchDog,       \* the loop's watchdog counter
  pc,             \* position in createDependencyGraph
  result,         \* the returned DependencyGraph, or the error thrown
  console,        \* what console.error printed
  processed,      \* history: the queue entries resolveChild was called for
  retried         \* history: the entries queued again since the watchdog
                  \* was last set to the length of the queue + 1

rvars == <<manifests, resolutionMap, failOnMissingPeerDependencies, graph,
           peerDeps, watchDog, pc, result, console, processed, retried>>

VARIABLES
  \* ---- installLocalStore ----
  inGraph,        \* graph: the nodes and links to install (input)
  location,       \* location: the path of the store (input)
  ignoreBinConflicts,  \* options?.ignoreBinConflicts (input)
  fs,             \* the file system: path -> entry
  fs0,            \* the file system at the call (history)
  ipc,            \* position in installLocalStore
  iresult,        \* the promise installLocalStore returned
  locationMap,    \* key -> destination
  filesActions,   \* the {src, dest} copies collected by copyDir
  nodesPending,   \* installNodesInStore: nodes whose promise is not settled
  copyPending,    \* copyFiles: copies the workers have not made yet
  linksPending,   \* linkNodes: links whose promise is not settled
  binsPending,    \* createBins: links whose promise is not settled
  scripts,        \* runScripts: <<pass, node>> -> progress of its callback
  batch,          \* batchPromises: number of batches started
  scriptFailure,  \* "none", or how a script has failed (history)
  queue           \* the PQueue: the tasks it runs and those it holds back

ivars == <<inGraph, location, ignoreBinConflicts, fs, fs0, ipc, iresult,
           locationMap, filesActions, nodesPending, copyPending, linksPending,
           binsPending, scripts, batch, scriptFailure, queue>>

VARIABLES
  \* ---- convertGraphToTree ----
  treeGraph,      \* graph: the nodes (key, isRoot?) and links (input)
  tree            \* the Tree returned, NoTree before the call

tvars == <<treeGraph, tree>>

vars == <<rvars, ivars, tvars>>

-----------------------------------------------------------------------------
(* JavaScript values *)

\* `undefined` where a number is expected (an id), and where a string is.
UndefinedId == 0 - 1
UndefinedStr == "undefined"

\* Code-unit order of the strings the model uses (the < and > of toJson).
StrRank(s) ==
  CASE s = "*" -> 0
    [] s = "1.0.0" -> 1
    [] s = "2.0.0" -> 2
    [] s = "9.0.0" -> 3
    [] s = "A" -> 4
    [] s = "B" -> 5
    [] s = "C" -> 6
    [] s = "D" -> 7
    [] s = "E" -> 8
    [] s = "^1" -> 9
    [] s = "^2" -> 10
    [] s = "^3" -> 11
    [] s = "^9" -> 12
    [] OTHER -> 13

\* semver.satisfies(version, range) on the versions and ranges of the model.
SemverSatisfies(version, range) ==
  \/ range = "*"
  \/ range = "^1" /\ version = "1.0.0"
  \/ range = "^2" /\ version = "2.0.0"
  \/ range = "^9" /\ version = "9.0.0"

-----------------------------------------------------------------------------
(* Sequences used as insertion-ordered Maps and arrays *)

Range(s) == {s[i] : i \in DOMAIN s}

\* Map.set(k) on the keys of an insertion-ordered Map: an existing key keeps
\* its place, a new key goes last.
MapSet(s, k) == IF k \in Range(s) THEN s ELSE Append(s, k)

\* Map.delete(k)
MapDelete(s, k) == SelectSeq(s, LAMBDA x : x # k)

RECURSIVE Concat(_)
\* array.reduce((a, n) => [...a, ...n], [])
Concat(ss) == IF ss = << >> THEN << >> ELSE Head(ss) \o Concat(Tail(ss))

RECURSIVE Ascending(_)
\* The members of S, a set of numbers, in increasing order.
Ascending(S) ==
  IF S = {} THEN << >>
  ELSE LET m == CHOOSE x \in S : \A y \in S : x <= y
       IN <<m>> \o Ascending(S \ {m})

-----------------------------------------------------------------------------
(* class Graph (node-dependency-graph/src/graph.ts) *)

EmptyMap == << >>

\* map[k] = v on a Map or an object
Put(f, k, v) == [x \in (DOMAIN f) \cup {k} |-> IF x = k THEN v ELSE f[x]]

\* map.get(k) || [] for a Map of arrays
GetOrEmpty(f, k) == IF k \in DOMAIN f THEN f[k] ELSE << >>

\* constructor()
NewGraph ==
  [nodes |-> << >>,          \* nodes[name][version], flattened in key order
   reversedNodes |-> EmptyMap,
   links |-> EmptyMap,
   reversedLinks |-> EmptyMap,
   nodeCounter |-> 0,
   peerLinkKeys |-> << >>,   \* the key order of the Map peerLinks
   peerLinks |-> EmptyMap]

\* The index of nodes[name][version] in the flattened object, 0 when absent.
NodesIndex(nodes, name, version) ==
  LET I == {i \in DOMAIN nodes :
              nodes[i].name = name /\ nodes[i].version = version}
  IN IF I = {} THEN 0 ELSE CHOOSE i \in I : TRUE

\* nodes[name] = nodes[name] || {}; nodes[name][version] = list.  The keys of
\* an object are enumerated in insertion order: names by first insertion,
\* the versions of a name by insertion under that name.
NodesPut(nodes, name, version, list) ==
  LET entry == [name |-> name, version |-> version, list |-> list]
      at == NodesIndex(nodes, name, version)
      same == {i \in DOMAIN nodes : nodes[i].name = name}
  IN IF at # 0 THEN [nodes EXCEPT ![at] = entry]
     ELSE IF same = {} THEN Append(nodes, entry)
     ELSE LET last == CHOOSE i \in same : \A j \in same : j <= i
          IN SubSeq(nodes, 1, last) \o <<entry>>
               \o SubSeq(nodes, last + 1, Len(nodes))

addNode(G, name, version, isLocal) ==
  LET id == G.nodeCounter
  IN [G EXCEPT
        !.nodeCounter = id + 1,
        !.nodes = NodesPut(@, name, version,
                    <<[id |-> id, peerDeps |-> EmptyMap, isLocal |-> isLocal]>>),
        !.reversedNodes = Put(@, id, [name |-> name, version |-> version,
                                      peerDeps |-> EmptyMap,
                                      isLocal |-> isLocal])]

\* Mutant: the filter of getVirtualNode without the + 1 of its length test.
MutVirtualNodeMatchesSameLength(o, peerDepsOfOld, fulfilledPeerDepName, fulfilledPeerDep) ==
  /\ Cardinality(DOMAIN o.peerDeps) = Cardinality(DOMAIN peerDepsOfOld)
  /\ \A pd \in DOMAIN peerDepsOfOld :
       pd \in DOMAIN o.peerDeps /\ o.peerDeps[pd] = peerDepsOfOld[pd]
  /\ fulfilledPeerDepName \in DOMAIN o.peerDeps
  /\ o.peerDeps[fulfilledPeerDepName] = fulfilledPeerDep

\* The filter of getVirtualNode: o.peerDeps is peerDeps plus the fulfilled one.
VirtualNodeMatches(o, peerDepsOfOld, fulfilledPeerDepName, fulfilledPeerDep) ==
  /\ Cardinality(DOMAIN o.peerDeps) = Cardinality(DOMAIN peerDepsOfOld) + 1
  /\ \A pd \in DOMAIN peerDepsOfOld :
       pd \in DOMAIN o.peerDeps /\ o.peerDeps[pd] = peerDepsOfOld[pd]
  /\ fulfilledPeerDepName \in DOMAIN o.peerDeps
  /\ o.peerDeps[fulfilledPeerDepName] = fulfilledPeerDep

getVirtualNode(G, sourceId, fulfilledPeerDepName, fulfilledPeerDep) ==
  LET oldNode == G.reversedNodes[sourceId]
      list == G.nodes[NodesIndex(G.nodes, oldNode.name, oldNode.version)].list
      matching == SelectSeq(list, LAMBDA o :
                    VirtualNodeMatches(o, oldNode.peerDeps,
                                       fulfilledPeerDepName, fulfilledPeerDep))
  IN IF matching # << >> THEN matching[1].id ELSE UndefinedId

RECURSIVE AddReversed(_, _, _)
\* newLinks.forEach(key => reversedLinks.get(key).set(newNodeId))
AddReversed(rl, keys, newNodeId) ==
  IF keys = << >> THEN rl
  ELSE AddReversed(Put(rl, Head(keys),
                       MapSet(GetOrEmpty(rl, Head(keys)), newNodeId)),
                   Tail(keys), newNodeId)

\* Mutant: createVirtualNode that copies every pending peer of the source.
MutCreateVirtualNodeCopiesPeers(G, sourceId, fulfilledPeerDepName, fulfilledPeerDep) ==
  LET oldNode == G.reversedNodes[sourceId]
      newNodeId == G.nodeCounter
      newPeerDeps == Put(oldNode.peerDeps, fulfilledPeerDepName,
                         fulfilledPeerDep)
      at == NodesIndex(G.nodes, oldNode.name, oldNode.version)
      \* 2 duplicating links
      newLinks == GetOrEmpty(G.links, sourceId)
      \* 3 update reversedLinks, 4 add resolved dep as link
      rl3 == AddReversed(G.reversedLinks, newLinks, newNodeId)
      rl4 == Put(rl3, fulfilledPeerDep,
                 MapSet(GetOrEmpty(rl3, fulfilledPeerDep), newNodeId))
      \* 5 copy peerDeps from source
      peerDepsToCopy == GetOrEmpty(G.peerLinks, sourceId)
  IN [G EXCEPT
        !.nodeCounter = newNodeId + 1,
        !.nodes = [@ EXCEPT ![at].list =
                     Append(@, [id |-> newNodeId, peerDeps |-> newPeerDeps,
                                isLocal |-> oldNode.isLocal])],
        !.reversedNodes = Put(@, newNodeId,
                              [name |-> oldNode.name,
                               version |-> oldNode.version,
                               peerDeps |-> newPeerDeps,
                               isLocal |-> oldNode.isLocal]),
        !.links = Put(@, newNodeId, MapSet(newLinks, fulfilledPeerDep)),
        !.reversedLinks = rl4,
        !.peerLinkKeys = MapSet(@, newNodeId),
        !.peerLinks = Put(@, newNodeId, peerDepsToCopy)]

createVirtualNode(G, sourceId, fulfilledPeerDepName, fulfilledPeerDep) ==
  LET oldNode == G.reversedNodes[sourceId]
      newNodeId == G.nodeCounter
      newPeerDeps == Put(oldNode.peerDeps, fulfilledPeerDepName,
                         fulfilledPeerDep)
      at == NodesIndex(G.nodes, oldNode.name, oldNode.version)
      \* 2 duplicating links
      newLinks == GetOrEmpty(G.links, sourceId)
      \* 3 update reversedLinks, 4 add resolved dep as link
      rl3 == AddReversed(G.reversedLinks, newLinks, newNodeId)
      rl4 == Put(rl3, fulfilledPeerDep,
                 MapSet(GetOrEmpty(rl3, fulfilledPeerDep), newNodeId))
      \* 5 copy peerDeps from source
      peerDepsToCopy == SelectSeq(GetOrEmpty(G.peerLinks, sourceId),
                          LAMBDA o : o.targetName # fulfilledPeerDepName)
  IN [G EXCEPT
        !.nodeCounter = newNodeId + 1,
        !.nodes = [@ EXCEPT ![at].list =
                     Append(@, [id |-> newNodeId, peerDeps |-> newPeerDeps,
                                isLocal |-> oldNode.isLocal])],
        !.reversedNodes = Put(@, newNodeId,
                              [name |-> oldNode.name,
                               version |-> oldNode.version,
                               peerDeps |-> newPeerDeps,
                               isLocal |-> oldNode.isLocal]),
        !.links = Put(@, newNodeId, MapSet(newLinks, fulfilledPeerDep)),
        !.reversedLinks = rl4,
        !.peerLinkKeys = MapSet(@, newNodeId),
        !.peerLinks = Put(@, newNodeId, peerDepsToCopy)]

\* Mutant: changeChildren that adds the new child and keeps the old one.
MutChangeChildrenKeepsOld(G, parentId, oldChildId, newChildId) ==
  [G EXCEPT
     !.links = [@ EXCEPT ![parentId] = MapSet(@, newChildId)],
     !.reversedLinks = Put(@, newChildId,
                           MapSet(GetOrEmpty(@, newChildId), parentId))]

changeChildren(G, parentId, oldChildId, newChildId) ==
  LET rl1 == [G.reversedLinks EXCEPT ![oldChildId] = MapDelete(@, parentId)]
  IN [G EXCEPT
        !.links = [@ EXCEPT ![parentId] =
                     MapSet(MapDelete(@, oldChildId), newChildId)],
        !.reversedLinks = Put(rl1, newChildId,
                              MapSet(GetOrEmpty(rl1, newChildId), parentId))]

getNodeWithoutPeerDependencies(G, name, version) ==
  LET at == NodesIndex(G.nodes, name, version)
  IN IF at = 0 THEN UndefinedId
     ELSE LET list == G.nodes[at].list
              base == SelectSeq(list, LAMBDA o : DOMAIN o.peerDeps = {})
          IN base[1].id

hasPeerLink(G, nodeId) ==
  nodeId \in DOMAIN G.peerLinks /\ Len(G.peerLinks[nodeId]) # 0

\* The entries getPeerLinks pushes for one key of peerLinks.
PeerLinksOf(G, sourceId) ==
  IF G.reversedNodes[sourceId].isLocal
  THEN << >>  \* Ignores peer dependencies of root packages
  ELSE LET parents == GetOrEmpty(G.reversedLinks, sourceId)
           pl == G.peerLinks[sourceId]
       IN Concat([i \in DOMAIN parents |->
                    [j \in DOMAIN pl |->
                       [parentId |-> parents[i],
                        sourceId |-> sourceId,
                        targetName |-> pl[j].targetName,
                        optional |-> pl[j].optional,
                        targetRange |-> pl[j].targetRange]]])

getPeerLinks(G) ==
  Concat([k \in DOMAIN G.peerLinkKeys |-> PeerLinksOf(G, G.peerLinkKeys[k])])

addPeerLink(G, sourceId, targetName, targetRange, optional) ==
  [G EXCEPT
     !.peerLinkKeys = MapSet(@, sourceId),
     !.peerLinks = Put(@, sourceId,
                       Append(GetOrEmpty(@, sourceId),
                              [targetName |-> targetName,
                               targetRange |-> targetRange,
                               optional |-> optional]))]

\* Mutant: addLink that records the link in the forward index only.
MutAddLinkForwardOnly(G, source, target) ==
  [G EXCEPT !.links = Put(@, source, MapSet(GetOrEmpty(@, source), target))]

addLink(G, source, target) ==
  [G EXCEPT
     !.links = Put(@, source, MapSet(GetOrEmpty(@, source), target)),
     !.reversedLinks = Put(@, target, MapSet(GetOrEmpty(@, target), source))]

RECURSIVE Reach(_, _, _)
\* The while loop of getReachableNodes: waiting is a stack, popped at its end.
Reach(G, waiting, reached) ==
  IF waiting = << >> THEN reached
  ELSE LET next == waiting[Len(waiting)]
           rest == SubSeq(waiting, 1, Len(waiting) - 1)
       IN IF next \in reached THEN Reach(G, rest, reached)
          ELSE Reach(G, rest \o GetOrEmpty(G.links, next),
                     reached \cup {next})

\* rootIds: the ids of the nodes of graph.nodes with isLocal
RootIds(G) ==
  Concat([i \in DOMAIN G.nodes |->
            LET l == SelectSeq(G.nodes[i].list, LAMBDA n : n.isLocal)
            IN [j \in DOMAIN l |-> l[j].id]])

getReachableNodes(G) == Reach(G, RootIds(G), {})

\* Mutant: the comparator of sortedNodes without its version tests.
MutCompareNodesByName(a, b) ==
  IF StrRank(a.name) > StrRank(b.name) THEN 1
  ELSE IF StrRank(a.name) < StrRank(b.name) THEN 0 - 1
  ELSE 0

\* The comparator of sortedNodes: name, then version, as strings.
CompareNodes(a, b) ==
  IF StrRank(a.name) > StrRank(b.name) THEN 1
  ELSE IF StrRank(a.name) < StrRank(b.name) THEN 0 - 1
  ELSE IF StrRank(a.version) > StrRank(b.version) THEN 1
  ELSE IF StrRank(a.version) < StrRank(b.version) THEN 0 - 1
  ELSE 0

\* > and < on ids that may be undefined: both are false with undefined.
NumGT(a, b) == a # UndefinedId /\ b # UndefinedId /\ a > b

\* The comparator of links: sourceId, then targetId.
CompareLinks(a, b) ==
  IF NumGT(a.sourceId, b.sourceId) THEN 1
  ELSE IF NumGT(b.sourceId, a.sourceId) THEN 0 - 1
  ELSE IF NumGT(a.targetId, b.targetId) THEN 1
  ELSE IF NumGT(b.targetId, a.targetId) THEN 0 - 1
  ELSE 0

\* x put into the sorted array s behind the last element that is not greater
\* (Array.prototype.sort is stable).
InsertNode(s, x) ==
  LET K == {k \in DOMAIN s : CompareNodes(s[k], x) <= 0}
      at == IF K = {} THEN 0 ELSE CHOOSE k \in K : \A j \in K : j <= k
  IN SubSeq(s, 1, at) \o <<x>> \o SubSeq(s, at + 1, Len(s))

RECURSIVE SortNodes(_, _)
SortNodes(todo, sorted) ==
  IF todo = << >> THEN sorted
  ELSE SortNodes(Tail(todo), InsertNode(sorted, Head(todo)))

InsertLink(s, x) ==
  LET K == {k \in DOMAIN s : CompareLinks(s[k], x) <= 0}
      at == IF K = {} THEN 0 ELSE CHOOSE k \in K : \A j \in K : j <= k
  IN SubSeq(s, 1, at) \o <<x>> \o SubSeq(s, at + 1, Len(s))

RECURSIVE SortLinks(_, _)
SortLinks(todo, sorted) ==
  IF todo = << >> THEN sorted
  ELSE SortLinks(Tail(todo), InsertLink(sorted, Head(todo)))

\* sortedNodes of toJson: the reachable nodes of graph.nodes, sorted.
SortedNodes(G, reachableNodes) ==
  SortNodes(
    Concat([i \in DOMAIN G.nodes |->
              LET l == SelectSeq(G.nodes[i].list,
                                 LAMBDA n : n.id \in reachableNodes)
              IN [j \in DOMAIN l |->
                    [internalId |-> l[j].id, name |-> G.nodes[i].name,
                     version |-> G.nodes[i].version]]]),
    << >>)

\* idMapping[internalId], undefined for an id that is not mapped
IdMapping(sortedNodes, internalId) ==
  LET I == {i \in DOMAIN sortedNodes : sortedNodes[i].internalId = internalId}
  IN IF I = {} THEN UndefinedId ELSE (CHOOSE i \in I : TRUE) - 1

\* Mutant: toJson without the filter on the keys of graph.links.
MutLinkSourcesUnfiltered(G, reachableNodes) == Ascending(DOMAIN G.links)

\* The keys of graph.links toJson keeps: the reachable sources.
LinkSources(G, reachableNodes) ==
  SelectSeq(Ascending(DOMAIN G.links), LAMBDA k : k \in reachableNodes)

toJson(G) ==
  LET reachableNodes == getReachableNodes(G)
      sortedNodes == SortedNodes(G, reachableNodes)
      sources == LinkSources(G, reachableNodes)
      links == Concat([k \in DOMAIN sources |->
                 [t \in DOMAIN G.links[sources[k]] |->
                    [sourceId |-> IdMapping(sortedNodes, sources[k]),
                     targetId |-> IdMapping(sortedNodes,
                                            G.links[sources[k]][t])]]])
  IN [nodes |-> [i \in DOMAIN sortedNodes |->
                   [name |-> sortedNodes[i].name,
                    version |-> sortedNodes[i].version,
                    id |-> IdMapping(sortedNodes, sortedNodes[i].internalId)]],
      links |-> SortLinks(links, << >>)]

-----------------------------------------------------------------------------
(* The inputs of createDependencyGraph *)

\* The most declarations (dependencies, devDependencies,
\* optionalDependencies, peerDependencies, peerDependenciesMeta entries) the
\* manifests of one input hold together.
MaxDecls == 4

\* The packages, in the order of the manifests array.
Packages ==
  << [name |-> "C", version |-> "1.0.0"],
     [name |-> "A", version |-> "1.0.0"],
     [name |-> "D", version |-> "2.0.0"],
     [name |-> "B", version |-> "1.0.0"],
     [name |-> "D", version |-> "1.0.0"] >>

\* The sets of packages that are local (isLocal: true).
LocalSets == { {"A"}, {"A", "C"} }

Decl(kind, source, name, range, optional) ==
  [kind |-> kind, source |-> source, name |-> name, range |-> range,
   optional |-> optional]

\* The declarations of D that only the input TwoParents has.
LargerDecls ==
  << Decl("dep", "D", "C", "^1", FALSE),
     Decl("peer", "D", "B", "*", FALSE) >>

\* The declarations an input draws from, in the key order of the manifests'
\* objects.  kind: dep, dev, opt (the three dependency objects), peer
\* (peerDependencies), meta (peerDependenciesMeta, with its optional flag).
DeclUniverse ==
  << Decl("dep", "A", "B", "^1", FALSE),
     Decl("dep", "A", "C", "^1", FALSE),
     Decl("dep", "A", "D", "^1", FALSE),
     Decl("dep", "A", "D", "^2", FALSE),
     Decl("dep", "A", "D", "^3", FALSE),
     Decl("dep", "B", "C", "^1", FALSE),
     Decl("dep", "B", "D", "^1", FALSE),
     Decl("dep", "C", "B", "^1", FALSE),
     Decl("dep", "C", "D", "^1", FALSE),
     Decl("dep", "C", "E", "^1", FALSE),
     Decl("dev", "C", "D", "^2", FALSE),
     Decl("opt", "B", "D", "^3", FALSE),
     Decl("opt", "B", "D", "^9", FALSE),
     Decl("opt", "B", "E", "^1", FALSE),
     Decl("peer", "A", "D", "^1", FALSE),
     Decl("peer", "B", "A", "*", FALSE),
     Decl("peer", "B", "C", "*", FALSE),
     Decl("peer", "B", "D", "^1", FALSE),
     Decl("peer", "C", "B", "*", FALSE),
     Decl("peer", "C", "D", "^1", FALSE),
     Decl("meta", "B", "D", "*", TRUE) >> \o LargerDecls

\* An object has one entry per key.
UniqueKeys(S) ==
  \A i \in S, j \in S :
    (/\ i # j
     /\ DeclUniverse[i].kind = DeclUniverse[j].kind
     /\ DeclUniverse[i].source = DeclUniverse[j].source)
    => DeclUniverse[i].name # DeclUniverse[j].name

RECURSIVE SubsetsUpTo(_, _)
\* The subsets of 1..n with at most k members.
SubsetsUpTo(n, k) ==
  IF n = 0 \/ k = 0 THEN { {} }
  ELSE SubsetsUpTo(n - 1, k)
         \cup {S \cup {n} : S \in SubsetsUpTo(n - 1, k - 1)}

\* An input of seven declarations: A and C both depend on B and D, D
\* depends on C and has the peer B, B has the peer C.
TwoParents ==
  {i \in DOMAIN DeclUniverse :
     DeclUniverse[i] \in
       { Decl("dep", "A", "B", "^1", FALSE), Decl("dep", "A", "D", "^1", FALSE),
         Decl("dep", "C", "B", "^1", FALSE), Decl("dep", "C", "D", "^1", FALSE),
         Decl("peer", "B", "C", "*", FALSE) } \cup Range(LargerDecls)}

\* An input of five declarations: the local packages A and C depend on B,
\* whose peer is A; A depends on D 1.0.0 and C, as a devDependency, on
\* D 2.0.0.
TwoVersions ==
  {i \in DOMAIN DeclUniverse :
     DeclUniverse[i] \in
       { Decl("dep", "A", "B", "^1", FALSE), Decl("dep", "A", "D", "^1", FALSE),
         Decl("dep", "C", "B", "^1", FALSE), Decl("dev", "C", "D", "^2", FALSE),
         Decl("peer", "B", "A", "*", FALSE) }}

\* An input of five declarations: A depends on B, C and D, C has the peer B
\* and B the optional peer D, which peerDependenciesMeta alone declares.
PeerOfPeer ==
  {i \in DOMAIN DeclUniverse :
     DeclUniverse[i] \in
       { Decl("dep", "A", "B", "^1", FALSE), Decl("dep", "A", "C", "^1", FALSE),
         Decl("dep", "A", "D", "^1", FALSE), Decl("peer", "C", "B", "*", FALSE),
         Decl("meta", "B", "D", "*", TRUE) }}

\* The sets of at most MaxDecls declarations, and the three larger inputs.
DeclSets ==
  {S \in SubsetsUpTo(Len(DeclUniverse) - Len(LargerDecls), MaxDecls) :
     UniqueKeys(S)} \cup {TwoVersions, PeerOfPeer, TwoParents}

\* The entries of one object of one manifest, in key order.
Entries(S, kind, source) ==
  LET picked == SelectSeq(Ascending(S), LAMBDA i :
                  DeclUniverse[i].kind = kind
                  /\ DeclUniverse[i].source = source)
  IN [k \in DOMAIN picked |-> DeclUniverse[picked[k]]]

\* The manifests of the input that declares S with the packages of L local.
Manifests(S, L) ==
  [i \in DOMAIN Packages |->
     [name |-> Packages[i].name,
      version |-> Packages[i].version,
      isLocal |-> Packages[i].name \in L,
      dependencies |-> Entries(S, "dep", Packages[i].name),
      devDependencies |-> Entries(S, "dev", Packages[i].name),
      optionalDependencies |-> Entries(S, "opt", Packages[i].name),
      peerDependencies |-> Entries(S, "peer", Packages[i].name),
      peerDependenciesMeta |-> Entries(S, "meta", Packages[i].name)]]

\* D ^9 resolves to a version that has no manifest; D ^3 and E are not in
\* the map.
ResolutionMaps ==
  { [n \in {"A", "B", "C", "D"} |->
       IF n = "D"
       THEN [r \in {"^1", "^2", "^9"} |->
               IF r = "^1" THEN "1.0.0"
               ELSE IF r = "^2" THEN "2.0.0" ELSE "9.0.0"]
       ELSE [r \in {"^1"} |-> "1.0.0"]] }

FailOnMissingInputs == {"undefined", "false"}

-----------------------------------------------------------------------------
(* createDependencyGraph *)

\* if (failOnMissingPeerDependencies === undefined) it is true
FailOnMissing == failOnMissingPeerDependencies # "false"

RECURSIVE AddNodes(_, _)
\* manifests.forEach(m => graph.addNode(m.name, m.version, m.isLocal || false))
AddNodes(G, ms) ==
  IF ms = << >> THEN G
  ELSE AddNodes(addNode(G, Head(ms).name, Head(ms).version, Head(ms).isLocal),
                Tail(ms))

\* resolutionMap[targetName][targetRange]: the version, undefined for a
\* missing range; a missing name makes the expression throw.
ResolutionHasName(rm, targetName) == targetName \in DOMAIN rm

TargetVersion(rm, targetName, targetRange) ==
  IF targetRange \in DOMAIN rm[targetName]
  THEN rm[targetName][targetRange] ELSE UndefinedStr

RECURSIVE MutAddLinksOfSkipping(_, _, _, _, _)
\* Mutant: every pass skips a target it does not find.
MutAddLinksOfSkipping(G, rm, sourceId, entries, skipMissing) ==
  IF entries = << >> THEN [graph |-> G, error |-> "none"]
  ELSE LET k == Head(entries)
       IN IF ~ResolutionHasName(rm, k.name)
          THEN [graph |-> G, error |-> "TypeError"]
          ELSE LET targetId == getNodeWithoutPeerDependencies(
                                 G, k.name, TargetVersion(rm, k.name, k.range))
               IN MutAddLinksOfSkipping(
                    IF targetId = UndefinedId THEN G
                    ELSE addLink(G, sourceId, targetId),
                    rm, sourceId, Tail(entries), skipMissing)

RECURSIVE AddLinksOf(_, _, _, _, _)
\* Object.keys(dependencies).forEach(...) for one manifest.  skipMissing is
\* the `if (!targetId) return` of the optionalDependencies pass; without it
\* targetId.id throws on a missing target.
AddLinksOf(G, rm, sourceId, entries, skipMissing) ==
  IF entries = << >> THEN [graph |-> G, error |-> "none"]
  ELSE LET k == Head(entries)
       IN IF ~ResolutionHasName(rm, k.name)
          THEN [graph |-> G, error |-> "TypeError"]
          ELSE LET targetId == getNodeWithoutPeerDependencies(
                                 G, k.name, TargetVersion(rm, k.name, k.range))
               IN IF targetId = UndefinedId
                  THEN IF skipMissing
                       THEN AddLinksOf(G, rm, sourceId, Tail(entries),
                                       skipMissing)
                       ELSE [graph |-> G, error |-> "TypeError"]
                  ELSE AddLinksOf(addLink(G, sourceId, targetId), rm,
                                  sourceId, Tail(entries), skipMissing)

RECURSIVE AddLinksPass(_, _, _, _)
\* One manifests.forEach pass over a dependency object.  pass: dep, dev, opt.
AddLinksPass(G, rm, ms, pass) ==
  IF ms = << >> THEN [graph |-> G, error |-> "none"]
  ELSE LET m == Head(ms)
           entries == IF pass = "dep" THEN m.dependencies
                      ELSE IF pass = "dev" THEN m.devDependencies
                      ELSE m.optionalDependencies
       IN IF pass = "dev" /\ ~m.isLocal
          THEN AddLinksPass(G, rm, Tail(ms), pass)
          ELSE LET sourceId == getNodeWithoutPeerDependencies(
                                 G, m.name, m.version)
                   r == AddLinksOf(G, rm, sourceId, entries, pass = "opt")
               IN IF r.error # "none" THEN r
                  ELSE AddLinksPass(r.graph, rm, Tail(ms), pass)

\* { ...meta keys mapped to "*", ...(m.peerDependencies || {}) } with, for
\* each key, Boolean(meta && meta[k] && meta[k].optional).
CombinedPeers(m) ==
  LET meta == m.peerDependenciesMeta
      peers == m.peerDependencies
      metaNames == {meta[i].name : i \in DOMAIN meta}
      RangeOf(name) ==
        LET I == {i \in DOMAIN peers : peers[i].name = name}
        IN IF I = {} THEN "*" ELSE peers[CHOOSE i \in I : TRUE].range
      OptionalOf(name) ==
        \E i \in DOMAIN meta : meta[i].name = name /\ meta[i].optional
      fromMeta == [i \in DOMAIN meta |->
                     [targetName |-> meta[i].name,
                      targetRange |-> RangeOf(meta[i].name),
                      optional |-> OptionalOf(meta[i].name)]]
      rest == SelectSeq(peers, LAMBDA e : e.name \notin metaNames)
  IN fromMeta \o [i \in DOMAIN rest |->
                    [targetName |-> rest[i].name,
                     targetRange |-> rest[i].range,
                     optional |-> OptionalOf(rest[i].name)]]

RECURSIVE AddPeerLinksOf(_, _, _)
AddPeerLinksOf(G, sourceId, entries) ==
  IF entries = << >> THEN G
  ELSE AddPeerLinksOf(
         addPeerLink(G, sourceId, Head(entries).targetName,
                     Head(entries).targetRange, Head(entries).optional),
         sourceId, Tail(entries))

RECURSIVE AddPeerLinksPass(_, _)
AddPeerLinksPass(G, ms) ==
  IF ms = << >> THEN G
  ELSE AddPeerLinksPass(
         AddPeerLinksOf(G,
           getNodeWithoutPeerDependencies(G, Head(ms).name, Head(ms).version),
           CombinedPeers(Head(ms))),
         Tail(ms))

\* The test at the top of an iteration: the link parent -> source is gone.
IsStale(G, peerDep) ==
  \/ peerDep.parentId \notin DOMAIN G.links
  \/ peerDep.sourceId \notin Range(G.links[peerDep.parentId])

NameOf(G, id) ==
  IF id \in DOMAIN G.reversedNodes THEN G.reversedNodes[id].name
  ELSE UndefinedStr

\* candidates.filter(s => name of s === name)[0], undefined when none
FirstNamed(G, candidates, name) ==
  LET found == SelectSeq(candidates, LAMBDA c : NameOf(G, c) = name)
  IN IF found = << >> THEN UndefinedId ELSE found[1]

\* Mutant: every node of the graph is a candidate, after the siblings and
\* the parent.
MutCandidatesAllNodes(G, parentId) ==
  Append(GetOrEmpty(G.links, parentId), parentId)
    \o Ascending(DOMAIN G.reversedNodes)

\* siblings.concat([parentId])
Candidates(G, parentId) == Append(GetOrEmpty(G.links, parentId), parentId)

\* Mutant: a peer without provider is treated alike, optional or not.
MutResolveChildOptionalUnmet(G, peerDep, failOnMissing) ==
  LET children == GetOrEmpty(G.links, peerDep.sourceId)
      found == FirstNamed(G, Candidates(G, peerDep.parentId),
                          peerDep.targetName)
  IN IF \E i \in DOMAIN children :
          NameOf(G, children[i]) = peerDep.targetName
     THEN [tag |-> "ignored", id |-> UndefinedId]
     ELSE IF found # UndefinedId
     THEN [tag |-> "id", id |-> found]
     ELSE IF hasPeerLink(G, peerDep.parentId)
     THEN [tag |-> "retryLater", id |-> UndefinedId]
     ELSE IF failOnMissing
     THEN [tag |-> "throw", id |-> UndefinedId]
     ELSE [tag |-> "failed", id |-> UndefinedId]

\* Mutant: an unmet peer whose parent has pending peers has an outcome the
\* loop has no branch for.
MutResolveChildNoBranch(G, peerDep, failOnMissing) ==
  LET children == GetOrEmpty(G.links, peerDep.sourceId)
      found == FirstNamed(G, Candidates(G, peerDep.parentId),
                          peerDep.targetName)
  IN IF \E i \in DOMAIN children :
          NameOf(G, children[i]) = peerDep.targetName
     THEN [tag |-> "ignored", id |-> UndefinedId]
     ELSE IF found # UndefinedId
     THEN [tag |-> "id", id |-> found]
     ELSE IF peerDep.optional
     THEN [tag |-> "ignored", id |-> UndefinedId]
     ELSE IF hasPeerLink(G, peerDep.parentId)
     THEN [tag |-> "later", id |-> UndefinedId]
     ELSE IF failOnMissing
     THEN [tag |-> "throw", id |-> UndefinedId]
     ELSE [tag |-> "failed", id |-> UndefinedId]

\* Mutant: an unmet peer throws whatever failOnMissingPeerDependencies is.
MutResolveChildThrows(G, peerDep, failOnMissing) ==
  LET children == GetOrEmpty(G.links, peerDep.sourceId)
      found == FirstNamed(G, Candidates(G, peerDep.parentId),
                          peerDep.targetName)
  IN IF \E i \in DOMAIN children :
          NameOf(G, children[i]) = peerDep.targetName
     THEN [tag |-> "ignored", id |-> UndefinedId]
     ELSE IF found # UndefinedId
     THEN [tag |-> "id", id |-> found]
     ELSE IF peerDep.optional
     THEN [tag |-> "ignored", id |-> UndefinedId]
     ELSE IF hasPeerLink(G, peerDep.parentId)
     THEN [tag |-> "retryLater", id |-> UndefinedId]
     ELSE [tag |-> "throw", id |-> UndefinedId]

\* Mutant: the children of the source are not looked at.
MutResolveChildOverChildren(G, peerDep, failOnMissing) ==
  LET found == FirstNamed(G, Candidates(G, peerDep.parentId),
                          peerDep.targetName)
  IN IF found # UndefinedId
     THEN [tag |-> "id", id |-> found]
     ELSE IF peerDep.optional
     THEN [tag |-> "ignored", id |-> UndefinedId]
     ELSE IF hasPeerLink(G, peerDep.parentId)
     THEN [tag |-> "retryLater", id |-> UndefinedId]
     ELSE IF failOnMissing
     THEN [tag |-> "throw", id |-> UndefinedId]
     ELSE [tag |-> "failed", id |-> UndefinedId]

\* Mutant: a provider whose version does not satisfy the range is not taken.
MutResolveChildInRange(G, peerDep, failOnMissing) ==
  LET children == GetOrEmpty(G.links, peerDep.sourceId)
      found == FirstNamed(G, Candidates(G, peerDep.parentId),
                          peerDep.targetName)
  IN IF \E i \in DOMAIN children :
          NameOf(G, children[i]) = peerDep.targetName
     THEN [tag |-> "ignored", id |-> UndefinedId]
     ELSE IF /\ found # UndefinedId
             /\ SemverSatisfies(G.reversedNodes[found].version,
                                peerDep.targetRange)
     THEN [tag |-> "id", id |-> found]
     ELSE [tag |-> "failed", id |-> UndefinedId]

\* resolveChild(parentId, targetName, optional): the provider's id (tag
\* "id"), "ignored", "retryLater", "failed", or the throw of the unmet peer.
resolveChild(G, peerDep, failOnMissing) ==
  LET children == GetOrEmpty(G.links, peerDep.sourceId)
      found == FirstNamed(G, Candidates(G, peerDep.parentId),
                          peerDep.targetName)
  IN IF \E i \in DOMAIN children :
          NameOf(G, children[i]) = peerDep.targetName
     THEN [tag |-> "ignored", id |-> UndefinedId]
     ELSE IF found # UndefinedId
     THEN [tag |-> "id", id |-> found]
     ELSE IF peerDep.optional
     THEN [tag |-> "ignored", id |-> UndefinedId]
     ELSE IF hasPeerLink(G, peerDep.parentId)
     THEN [tag |-> "retryLater", id |-> UndefinedId]
     ELSE IF failOnMissing
     THEN [tag |-> "throw", id |-> UndefinedId]
     ELSE [tag |-> "failed", id |-> UndefinedId]

\* The entries pushed for the pending peer links of sourceId under parentId.
EntriesFor(G, parentId, sourceId) ==
  LET pl == GetOrEmpty(G.peerLinks, sourceId)
  IN [j \in DOMAIN pl |->
        [parentId |-> parentId,
         sourceId |-> sourceId,
         targetName |-> pl[j].targetName,
         optional |-> pl[j].optional,
         targetRange |-> pl[j].targetRange]]

\* The entries pushed for the children of the new virtual node.
ChildEntries(G, newPackageId) ==
  LET children == GetOrEmpty(G.links, newPackageId)
  IN Concat([i \in DOMAIN children |->
               EntriesFor(G, newPackageId, children[i])])

\* console.error of resolveChild: the [WARNING] lines.
Warning(G, kind, peerDep, version) ==
  [kind |-> kind,
   name |-> peerDep.targetName,
   source |-> <<G.reversedNodes[peerDep.sourceId].name,
                G.reversedNodes[peerDep.sourceId].version>>,
   parent |-> <<G.reversedNodes[peerDep.parentId].name,
                G.reversedNodes[peerDep.parentId].version>>,
   version |-> version,
   range |-> peerDep.targetRange]

\* What resolveChild prints when it returns the provider `id`.
Unmatching(G, peerDep, id) ==
  IF SemverSatisfies(G.reversedNodes[id].version, peerDep.targetRange)
  THEN << >>
  ELSE << Warning(G, "unmatching", peerDep, G.reversedNodes[id].version) >>

-----------------------------------------------------------------------------
(* The resolver's actions *)

\* installLocalStore is not called.
\* convertGraphToTree is not called on its own.
NoTree == [components |-> << >>, rootComponents |-> <<0>>]
TreeIdle ==
  /\ treeGraph = [nodes |-> << >>, links |-> << >>]
  /\ tree = NoTree

InstallerIdle ==
  /\ inGraph = [nodes |-> << >>, links |-> << >>]
  /\ location = << >>
  /\ ignoreBinConflicts = UndefinedStr
  /\ fs = EmptyMap
  /\ fs0 = EmptyMap
  /\ ipc = "idle"
  /\ iresult = [kind |-> "pending", message |-> << >>]
  /\ locationMap = EmptyMap
  /\ filesActions = {}
  /\ nodesPending = {}
  /\ copyPending = {}
  /\ linksPending = {}
  /\ binsPending = {}
  /\ scripts = EmptyMap
  /\ batch = 0
  /\ scriptFailure = "none"
  /\ queue = [running |-> {}, waiting |-> << >>]

Init ==
  /\ TreeIdle
  /\ \E S \in DeclSets, L \in LocalSets : manifests = Manifests(S, L)
  /\ resolutionMap \in ResolutionMaps
  /\ failOnMissingPeerDependencies \in FailOnMissingInputs
  /\ graph = NewGraph
  /\ peerDeps = << >>
  /\ watchDog = 0
  /\ pc = "addNodes"
  /\ result = [kind |-> "none"]
  /\ console = << >>
  /\ processed = {}
  /\ retried = << >>
  /\ InstallerIdle

Inputs == <<manifests, resolutionMap, failOnMissingPeerDependencies>>

Throw(error) ==
  /\ pc' = "threw"
  /\ result' = [kind |-> "error", error |-> error]

\* Adding nodes to the graph
AddNodesPass ==
  /\ pc = "addNodes"
  /\ graph' = AddNodes(graph, manifests)
  /\ pc' = "addDependencies"
  /\ UNCHANGED <<ivars, tvars, Inputs, peerDeps, watchDog, result, console, processed,
               retried>>

\* One of the three passes that add links; a throw ends the call.
LinksPass(at, pass, next) ==
  /\ pc = at
  /\ LET r == AddLinksPass(graph, resolutionMap, manifests, pass)
     IN /\ graph' = r.graph
        /\ IF r.error = "none"
           THEN pc' = next /\ UNCHANGED result
           ELSE Throw(r.error)
  /\ UNCHANGED <<ivars, tvars, Inputs, peerDeps, watchDog, console, processed,
               retried>>

AddDependencies == LinksPass("addDependencies", "dep", "addDevDependencies")

AddDevDependencies ==
  LinksPass("addDevDependencies", "dev", "addOptionalDependencies")

AddOptionalDependencies ==
  LinksPass("addOptionalDependencies", "opt", "addPeerLinks")

\* Mutant: the watchdog starts at 1 whatever the length of the queue.
MutAddPeerLinksWatchDogOne ==
  /\ pc = "addPeerLinks"
  /\ graph' = AddPeerLinksPass(graph, manifests)
  /\ peerDeps' = getPeerLinks(graph')
  /\ watchDog' = 1
  /\ pc' = "loop"
  /\ UNCHANGED <<ivars, tvars, Inputs, result, console, processed, retried>>

\* The pass that registers the peer links, then the start of the loop:
\* peerDeps = graph.getPeerLinks(); watchDog = peerDeps.length + 1
AddPeerLinks ==
  /\ pc = "addPeerLinks"
  /\ graph' = AddPeerLinksPass(graph, manifests)
  /\ peerDeps' = getPeerLinks(graph')
  /\ watchDog' = Len(peerDeps') + 1
  /\ pc' = "loop"
  /\ UNCHANGED <<ivars, tvars, Inputs, result, console, processed, retried>>

\* The loop runs another iteration.
Iterating == pc = "loop" /\ peerDeps # << >> /\ watchDog # 0

\* Mutant: a stale entry is dropped and the watchdog left as it is.
MutDropStaleKeepsWatchDog ==
  /\ Iterating
  /\ IsStale(graph, Head(peerDeps))
  /\ peerDeps' = Tail(peerDeps)
  /\ retried' = << >>
  /\ UNCHANGED <<ivars, tvars, Inputs, graph, watchDog, pc, result, console,
                 processed>>

\* The entry is stale: it is dropped and the watchdog reset.
DropStale ==
  /\ Iterating
  /\ IsStale(graph, Head(peerDeps))
  /\ peerDeps' = Tail(peerDeps)
  /\ watchDog' = Len(peerDeps') + 1
  /\ retried' = << >>
  /\ UNCHANGED <<ivars, tvars, Inputs, graph, pc, result, console, processed>>

\* The iteration for an entry that is not stale, by what resolveChild returns.
Resolving(tag) ==
  /\ Iterating
  /\ ~IsStale(graph, Head(peerDeps))
  /\ resolveChild(graph, Head(peerDeps), FailOnMissing).tag = tag

\* History: the entries queued again that are left when the head of the
\* queue is shifted off it.
Shifted ==
  IF Len(retried) = Len(peerDeps) THEN Tail(retried) ELSE retried

\* History: the entry, what resolveChild returned for it, and for a provider
\* the node the parent was rewired to.
Processed(tag, provider, chosen) ==
  processed' = processed \cup
    {[entry |-> Head(peerDeps), tag |-> tag, provider |-> provider,
      chosen |-> chosen]}

PeerIgnored ==
  /\ Resolving("ignored")
  /\ Processed("ignored", UndefinedId, UndefinedId)
  /\ peerDeps' = Tail(peerDeps)
  /\ retried' = Shifted
  /\ UNCHANGED <<ivars, tvars, Inputs, graph, watchDog, pc, result, console>>

PeerFailed ==
  /\ Resolving("failed")
  /\ Processed("failed", UndefinedId, UndefinedId)
  /\ peerDeps' = Tail(peerDeps)
  /\ console' = Append(console,
                       Warning(graph, "unmet", Head(peerDeps), UndefinedStr))
  /\ retried' = Shifted
  /\ UNCHANGED <<ivars, tvars, Inputs, graph, watchDog, pc, result>>

PeerUnmetThrow ==
  /\ Resolving("throw")
  /\ Processed("throw", UndefinedId, UndefinedId)
  /\ peerDeps' = Tail(peerDeps)
  /\ Throw("Unmet peer dependency")
  /\ retried' = Shifted
  /\ UNCHANGED <<ivars, tvars, Inputs, graph, watchDog, console>>

PeerRetryLater ==
  /\ Resolving("retryLater")
  /\ Processed("retryLater", UndefinedId, UndefinedId)
  /\ peerDeps' = Append(Tail(peerDeps), Head(peerDeps))
  /\ watchDog' = watchDog - 1
  /\ retried' = Append(Shifted, Head(peerDeps))
  /\ UNCHANGED <<ivars, tvars, Inputs, graph, pc, result, console>>

\* A provider was found and the virtual node exists: it is reused.
ReuseVirtual ==
  /\ Resolving("id")
  /\ LET peerDep == Head(peerDeps)
         id == resolveChild(graph, peerDep, FailOnMissing).id
         existingVirtualNode ==
           getVirtualNode(graph, peerDep.sourceId, peerDep.targetName, id)
     IN /\ existingVirtualNode # UndefinedId
        /\ Processed("id", id, existingVirtualNode)
        /\ peerDeps' = Tail(peerDeps)
             \o EntriesFor(graph, peerDep.parentId, existingVirtualNode)
        /\ graph' = changeChildren(graph, peerDep.parentId, peerDep.sourceId,
                                   existingVirtualNode)
        /\ console' = console \o Unmatching(graph, peerDep, id)
  /\ watchDog' = Len(peerDeps') + 1
  /\ retried' = << >>
  /\ UNCHANGED <<ivars, tvars, Inputs, pc, result>>

\* A provider was found and no virtual node exists: one is created.
CreateVirtual ==
  /\ Resolving("id")
  /\ LET peerDep == Head(peerDeps)
         id == resolveChild(graph, peerDep, FailOnMissing).id
         existingVirtualNode ==
           getVirtualNode(graph, peerDep.sourceId, peerDep.targetName, id)
         newPackageId == graph.nodeCounter
         G1 == createVirtualNode(graph, peerDep.sourceId, peerDep.targetName,
                                 id)
     IN /\ existingVirtualNode = UndefinedId
        /\ Processed("id", id, newPackageId)
        /\ peerDeps' = Tail(peerDeps)
             \o EntriesFor(G1, peerDep.parentId, newPackageId)
             \o ChildEntries(G1, newPackageId)
        /\ graph' = changeChildren(G1, peerDep.parentId, peerDep.sourceId,
                                   newPackageId)
        /\ console' = console \o Unmatching(graph, peerDep, id)
  /\ watchDog' = Len(peerDeps') + 1
  /\ retried' = << >>
  /\ UNCHANGED <<ivars, tvars, Inputs, pc, result>>

\* The loop ends (the queue is empty, or the watchdog is 0) and the call
\* returns graph.toJson().
Return ==
  /\ pc = "loop"
  /\ ~Iterating
  /\ result' = [kind |-> "graph", graph |-> toJson(graph)]
  /\ pc' = "done"
  /\ UNCHANGED <<ivars, tvars, Inputs, graph, peerDeps, watchDog, console, processed,
               retried>>

Next ==
  \/ AddNodesPass
  \/ AddDependencies
  \/ AddDevDependencies
  \/ AddOptionalDependencies
  \/ AddPeerLinks
  \/ DropStale
  \/ PeerIgnored
  \/ PeerFailed
  \/ PeerUnmetThrow
  \/ PeerRetryLater
  \/ ReuseVirtual
  \/ CreateVirtual
  \/ Return

Spec == Init /\ [][Next]_vars

-----------------------------------------------------------------------------
(* The file system (fs, path, rimraf) as installLocalStore uses it.  A path
   is the sequence of its segments, "/" first when it is absolute; an entry
   is a directory, a file with its content, or a symbolic link. *)

Directory == [type |-> "dir", data |-> << >>]
File(data) == [type |-> "file", data |-> data]
Symlink(target) == [type |-> "symlink", data |-> target]

\* path.isAbsolute, path.join, path.dirname
isAbsolute(p) == p # << >> /\ p[1] = "/"
join(p, q) == p \o q
dirname(p) == SubSeq(p, 1, Len(p) - 1)

\* p is q or an ancestor of q.
IsPrefix(p, q) == Len(p) <= Len(q) /\ SubSeq(q, 1, Len(p)) = p

\* fs.statSync(p) succeeds; stats.isDirectory(); stats.isFile()
Exists(F, p) == p \in DOMAIN F
IsDirectory(F, p) == Exists(F, p) /\ F[p].type = "dir"
IsFile(F, p) == Exists(F, p) /\ F[p].type = "file"

\* fs.readdirSync(p): the paths of the entries of directory p
readdir(F, p) == {q \in DOMAIN F : Len(q) = Len(p) + 1 /\ IsPrefix(p, q)}

\* Mutant: rimraf leaves what is on disk.
MutRmdirKeeps(F, dir) == F

\* rimraf(dir): dir and all below it are removed; no error when it is absent.
rmdir(F, dir) == [q \in {r \in DOMAIN F : ~IsPrefix(dir, r)} |-> F[q]]

\* fs.promises.mkdir(p): fails when p exists or its parent is no directory.
MkdirFails(F, p) == Exists(F, p) \/ ~IsDirectory(F, dirname(p))

\* fs.promises.mkdir(p, { recursive: true })
Ancestors(p) == {SubSeq(p, 1, k) : k \in 1..Len(p)}
MkdirRecursiveFails(F, p) ==
  \E q \in Ancestors(p) : Exists(F, q) /\ ~IsDirectory(F, q)
mkdirRecursive(F, p) ==
  [q \in (DOMAIN F) \cup Ancestors(p) |->
     IF q \in DOMAIN F THEN F[q] ELSE Directory]

\* The path of node_modules/<name> below a destination: a scoped name
\* "@scope/name" has two segments.
NameSegments(name) ==
  CASE name = "@s/z" -> <<"@s", "z">>
    [] OTHER -> <<name>>

\* /^(@[a-z0-9-~][a-z0-9-._~]*\/)?[a-zA-Z0-9-~][a-zA-Z0-9-._~]*$/.test(name)
ValidName(name) == name \in {"x", "y", "@s/z"}

\* /\/|\\|\n/.test(binName)
InvalidBinName(binName) == binName \in {"a/b"}

\* !!v for an optional boolean given as "undefined", "true" or "false"
Truthy(v) == v = "true"

-----------------------------------------------------------------------------
(* The inputs of installLocalStore the model explores *)

\* node.bins: undefined, or the object, its keys in order.
NoBins == [defined |-> FALSE, entries |-> << >>]
Bins(entries) == [defined |-> TRUE, entries |-> entries]
Node(key, name, keepInPlace, bins, loc) ==
  [key |-> key, name |-> name, keepInPlace |-> keepInPlace, bins |-> bins,
   location |-> loc]
Link(source, target) == [source |-> source, target |-> target]

Store == <<"/", "store">>
PackageJson == <<"package.json">>

\* What is on disk before the call, but for the store: the content of the
\* packages a, b and c, and a file.
SourceDisk(cExists) ==
  LET pa == <<"/", "pa">>
      pb == <<"/", "pb">>
      pcPath == <<"/", "pc">>
      always ==
        (<<"/">> :> Directory)
        @@ (pa :> Directory)
        @@ (join(pa, PackageJson) :> File(<<"install", "postinstall">>))
        @@ (join(pa, <<"node_modules">>) :> Directory)
        @@ (join(pa, <<"node_modules", "y">>) :> Directory)
        @@ (pb :> Directory)
        @@ (join(pb, PackageJson) :> File(<<"install">>))
        @@ (join(pb, <<"cli.js">>) :> File(<<"bin">>))
        @@ (<<"/", "file">> :> File(<<"text">>))
  IN IF cExists
     THEN always @@ (pcPath :> Directory)
                 @@ (join(pcPath, PackageJson) :> File(<<"postinstall">>))
     ELSE always

\* The store before the call.
StoreKinds == {"empty", "missing", "file", "notEmpty", "relative"}
StoreDisk(kind) ==
  CASE kind = "empty" -> (Store :> Directory)
    [] kind = "file" -> (Store :> File(<<"text">>))
    [] kind = "notEmpty" ->
         (Store :> Directory) @@ (join(Store, <<"old">>) :> File(<<"text">>))
    [] OTHER -> EmptyMap
StoreLocation(kind) == IF kind = "relative" THEN <<"store">> ELSE Store

\* The links a graph may have, in the order the graph lists them.
MaxLinks == 2
LinkUniverse ==
  <<Link("a", "b"), Link("b", "a"), Link("a", "c"), Link("b", "c"),
    Link("a", "a")>>
LinkSets == {S \in SUBSET (DOMAIN LinkUniverse) : Cardinality(S) <= MaxLinks}
Links(S) == [i \in 1..Cardinality(S) |-> LinkUniverse[Ascending(S)[i]]]

\* A graph of three nodes: a (name x, in place or not), b (name y, a bin),
\* c (named y as b is, or @s/z; its location exists or not; a bin of the
\* same name as b's, whose file is the only file c has).
BaseGraph(aInPlace, cName, S) ==
  [nodes |-> <<Node("a", "x", aInPlace, NoBins, <<"/", "pa">>),
               Node("b", "y", FALSE, Bins(<<<<"run", <<"cli.js">>>>>>),
                    <<"/", "pb">>),
               Node("c", cName, FALSE, Bins(<<<<"run", PackageJson>>>>),
                    <<"/", "pc">>)>>,
   links |-> Links(S)]

\* One thing validateInput rejects, put into a graph.
DefectList ==
  <<"duplicateKey", "relativeLocation", "invalidName", "fileLocation",
    "wrongSource", "wrongTarget", "invalidBin", "duplicateLink">>
Defects == Range(DefectList)
WithDefect(g, defect) ==
  CASE defect = "duplicateKey" ->
         [g EXCEPT !.nodes[3].key = "b"]
    [] defect = "relativeLocation" ->
         [g EXCEPT !.nodes[2].location = <<"pb">>]
    [] defect = "invalidName" ->
         [g EXCEPT !.nodes[2].name = ".bin"]
    [] defect = "fileLocation" ->
         [g EXCEPT !.nodes[3].location = <<"/", "file">>]
    [] defect = "wrongSource" ->
         [g EXCEPT !.links = Append(@, Link("zz", "a"))]
    [] defect = "wrongTarget" ->
         [g EXCEPT !.links = Append(@, Link("a", "zz"))]
    [] defect = "invalidBin" ->
         [g EXCEPT !.nodes[2].bins = Bins(<<<<"a/b", <<"cli.js">>>>>>)]
    [] defect = "duplicateLink" ->
         [g EXCEPT !.links = IF @ = << >>
                             THEN <<Link("a", "b"), Link("a", "b")>>
                             ELSE Append(@, @[1])]
    [] OTHER -> g

\* At most MaxDefects of them at once.
MaxDefects == 2
DefectSets == {D \in SUBSET Defects : Cardinality(D) <= MaxDefects}
RECURSIVE WithDefectsFrom(_, _, _)
WithDefectsFrom(g, D, i) ==
  IF i > Len(DefectList) THEN g
  ELSE WithDefectsFrom(IF DefectList[i] \in D
                       THEN WithDefect(g, DefectList[i]) ELSE g, D, i + 1)
WithDefects(g, D) == WithDefectsFrom(g, D, 1)

IgnoreBinConflictsInputs == {"undefined", "true"}
-----------------------------------------------------------------------------
(* validateInput (local-package-store/src/index.ts).  An error message is
   the sequence of its parts; NoError is the undefined the checks return. *)

NoError == << >>

Keys(g) == [i \in DOMAIN g.nodes |-> g.nodes[i].key]
HasKey(g, key) == \E i \in DOMAIN g.nodes : g.nodes[i].key = key

\* graph.nodes.find((n) => n.key === key)
FindNode(g, key) ==
  g.nodes[CHOOSE i \in DOMAIN g.nodes :
            /\ g.nodes[i].key = key
            /\ \A j \in 1..(i - 1) : g.nodes[j].key # key]

getLocationError(F, loc) ==
  IF ~isAbsolute(loc)
  THEN <<"Location is not an absolute path:">> \o loc
  ELSE IF ~Exists(F, loc)
  THEN <<"Location does not exist:">> \o loc
  ELSE IF ~IsDirectory(F, loc)
  THEN <<"Location is not a directory:">> \o loc
  ELSE IF readdir(F, loc) # {}
  THEN <<"Location is not an empty directory:">> \o loc
  ELSE NoError

RECURSIVE findDups(_)
findDups(array) ==
  IF array = << >> THEN NoError
  ELSE IF Head(array) \in Range(Tail(array)) THEN <<Head(array)>>
  ELSE findDups(Tail(array))

findDependenciesWithSameName(g) ==
  LET name(key) == FindNode(g, key).name
      repeated(j) ==
        \E i \in 1..(j - 1) :
          /\ g.links[i].source = g.links[j].source
          /\ name(g.links[i].target) = name(g.links[j].target)
      is == SelectSeq([j \in DOMAIN g.links |-> j], repeated)
  IN [k \in DOMAIN is |->
        [source |-> g.links[is[k]].source,
         targetName |-> name(g.links[is[k]].target)]]

getGraphError(F, g) ==
  LET dupKey == findDups(Keys(g))
      notAbsoluteLocations ==
        SelectSeq(g.nodes, LAMBDA n : ~isAbsolute(n.location))
      nodesWithInvalidName ==
        SelectSeq(g.nodes, LAMBDA n : ~ValidName(n.name))
      notFolderLocations ==
        SelectSeq(g.nodes, LAMBDA n :
          Exists(F, n.location) /\ ~IsDirectory(F, n.location))
      linksWithWrongSource ==
        SelectSeq(g.links, LAMBDA l : ~HasKey(g, l.source))
      linksWithWrongTarget ==
        SelectSeq(g.links, LAMBDA l : ~HasKey(g, l.target))
  IN IF dupKey # NoError
     THEN <<"Multiple nodes have the following key:">> \o dupKey
     ELSE IF notAbsoluteLocations # << >>
     THEN <<"Location of a node is not absolute:">>
            \o notAbsoluteLocations[1].location
     ELSE IF nodesWithInvalidName # << >>
     THEN <<"Package name invalid:", nodesWithInvalidName[1].name>>
     ELSE IF notFolderLocations # << >>
     THEN <<"Location of a node is not a directory:">>
            \o notFolderLocations[1].location
     ELSE IF linksWithWrongSource # << >>
     THEN <<"Invalid link source:", linksWithWrongSource[1].source>>
     ELSE IF linksWithWrongTarget # << >>
     THEN <<"Invalid link target:", linksWithWrongTarget[1].target>>
     ELSE LET dependenciesWithSameNames == findDependenciesWithSameName(g)
          IN IF dependenciesWithSameNames # << >>
             THEN <<"Package", dependenciesWithSameNames[1].source,
                    "depends on multiple packages called",
                    dependenciesWithSameNames[1].targetName>>
             ELSE NoError

\* Object.keys(node.bins), for the node of a key; none without bins.
BinNames(g, key) ==
  IF HasKey(g, key)
  THEN LET entries == FindNode(g, key).bins.entries
       IN [i \in DOMAIN entries |-> entries[i][1]]
  ELSE << >>

\* Mutant: bin conflicts are reported whatever ignoreBinConflicts is.
MutGetBinErrorNeverIgnores(g, ignore) ==
  LET invalid(n) ==
        SelectSeq([i \in DOMAIN n.bins.entries |-> n.bins.entries[i][1]],
                  InvalidBinName)
      errors == SelectSeq(g.nodes, LAMBDA n : invalid(n) # << >>)
      installed(j) ==
        UNION {Range(BinNames(g, g.links[i].target)) :
                 i \in {k \in 1..(j - 1) :
                          g.links[k].source = g.links[j].source}}
      collisions(j) ==
        SelectSeq(BinNames(g, g.links[j].target),
                  LAMBDA binName : binName \in installed(j))
      binCollisionErrors ==
        Concat([j \in DOMAIN g.links |->
                  [k \in DOMAIN collisions(j) |->
                     <<"Several different scripts called", collisions(j)[k],
                       "need to be installed at the same location",
                       g.links[j].source>>]])
  IN IF errors # << >>
     THEN <<"Package", errors[1].key,
            "exposes a bin script with an invalid name:", invalid(errors[1])[1]>>
     ELSE IF binCollisionErrors # << >>
     THEN binCollisionErrors[1]
     ELSE NoError

getBinError(g, ignore) ==
  LET invalid(n) ==
        SelectSeq([i \in DOMAIN n.bins.entries |-> n.bins.entries[i][1]],
                  InvalidBinName)
      errors == SelectSeq(g.nodes, LAMBDA n : invalid(n) # << >>)
      \* installedBinMap.get(source) when the link at j is visited
      installed(j) ==
        UNION {Range(BinNames(g, g.links[i].target)) :
                 i \in {k \in 1..(j - 1) :
                          g.links[k].source = g.links[j].source}}
      collisions(j) ==
        SelectSeq(BinNames(g, g.links[j].target),
                  LAMBDA binName : binName \in installed(j) /\ ~Truthy(ignore))
      binCollisionErrors ==
        Concat([j \in DOMAIN g.links |->
                  [k \in DOMAIN collisions(j) |->
                     <<"Several different scripts called", collisions(j)[k],
                       "need to be installed at the same location",
                       g.links[j].source>>]])
  IN IF errors # << >>
     THEN <<"Package", errors[1].key,
            "exposes a bin script with an invalid name:", invalid(errors[1])[1]>>
     ELSE IF binCollisionErrors # << >>
     THEN binCollisionErrors[1]
     ELSE NoError

\* Mutant: validateInput without its last check.
MutValidateInputWithoutBins(F, g, loc, ignore) ==
  IF getLocationError(F, loc) # NoError THEN getLocationError(F, loc)
  ELSE getGraphError(F, g)

\* The error validateInput throws, or NoError.
validateInput(F, g, loc, ignore) ==
  IF getLocationError(F, loc) # NoError THEN getLocationError(F, loc)
  ELSE IF getGraphError(F, g) # NoError THEN getGraphError(F, g)
  ELSE getBinError(g, ignore)

-----------------------------------------------------------------------------
(* addSelfLinks and convertGraphToTree *)

addSelfLinks(g) ==
  [nodes |-> g.nodes,
   links |-> SelectSeq(g.links, LAMBDA link : link.source # link.target)
               \o [i \in DOMAIN g.nodes |->
                     Link(g.nodes[i].key, g.nodes[i].key)]]

\* nodeToIndex.get(key): the last node of that key (0-based in the source).
nodeToIndex(g, key) ==
  CHOOSE i \in DOMAIN g.nodes :
    /\ g.nodes[i].key = key
    /\ \A j \in (i + 1)..Len(g.nodes) : g.nodes[j].key # key

\* gr: the indexes a node has links to.
Adjacent(g, i) ==
  {nodeToIndex(g, g.links[k].target) :
     k \in {l \in DOMAIN g.links : nodeToIndex(g, g.links[l].source) = i}}

RECURSIVE ReachableIndexes(_, _)
\* The indexes reached from those of S by links, with S.
ReachableIndexes(g, S) ==
  LET next == S \cup UNION {Adjacent(g, i) : i \in S}
  IN IF next = S THEN S ELSE ReachableIndexes(g, next)

\* The strongly connected component of index i.
ComponentOf(g, i) ==
  {j \in ReachableIndexes(g, {i}) : i \in ReachableIndexes(g, {j})}

\* n.isRoot || false
IsRoot(n) == IF "isRoot" \in DOMAIN n THEN n.isRoot ELSE FALSE

\* Mutant: a link inside a component makes the component depend on itself.
MutConvertGraphToTreeSelfDependency(g) ==
  LET lowest == {i \in DOMAIN g.nodes :
                   \A j \in ComponentOf(g, i) : i <= j}
      components == [c \in 1..Cardinality(lowest) |->
                       ComponentOf(g, Ascending(lowest)[c])]
      number(i) == CHOOSE c \in DOMAIN components : i \in components[c]
  IN [components |->
        [c \in DOMAIN components |->
           [keys |-> [k \in 1..Cardinality(components[c]) |->
                        g.nodes[Ascending(components[c])[k]].key],
            dependencies |->
              {number(j) : j \in UNION {Adjacent(g, i) : i \in components[c]}}]],
      rootComponents |->
        SelectSeq([c \in DOMAIN components |-> c],
                  LAMBDA c : \E i \in components[c] : IsRoot(g.nodes[i]))]

\* Mutant: a component is a root when its first node is flagged.
MutConvertGraphToTreeFirstIsRoot(g) ==
  LET lowest == {i \in DOMAIN g.nodes :
                   \A j \in ComponentOf(g, i) : i <= j}
      components == [c \in 1..Cardinality(lowest) |->
                       ComponentOf(g, Ascending(lowest)[c])]
      number(i) == CHOOSE c \in DOMAIN components : i \in components[c]
  IN [components |->
        [c \in DOMAIN components |->
           [keys |-> [k \in 1..Cardinality(components[c]) |->
                        g.nodes[Ascending(components[c])[k]].key],
            dependencies |->
              {number(j) : j \in UNION {Adjacent(g, i) : i \in components[c]}}
                \ {c}]],
      rootComponents |->
        SelectSeq([c \in DOMAIN components |-> c],
                  LAMBDA c : IsRoot(g.nodes[Ascending(components[c])[1]]))]

\* Mutant: every node is a component of its own.
MutConvertGraphToTreeNoScc(g) ==
  [components |->
     [c \in DOMAIN g.nodes |->
        [keys |-> <<g.nodes[c].key>>,
         dependencies |-> Adjacent(g, c) \ {c}]],
   rootComponents |->
     SelectSeq([c \in DOMAIN g.nodes |-> c],
               LAMBDA c : IsRoot(g.nodes[c]))]

\* scc(gr) and the tree made of it.  The components are numbered from 1, by
\* their lowest index; a component's dependencies are the other components
\* its nodes have links to.
convertGraphToTree(g) ==
  LET lowest == {i \in DOMAIN g.nodes :
                   \A j \in ComponentOf(g, i) : i <= j}
      components == [c \in 1..Cardinality(lowest) |->
                       ComponentOf(g, Ascending(lowest)[c])]
      number(i) == CHOOSE c \in DOMAIN components : i \in components[c]
  IN [components |->
        [c \in DOMAIN components |->
           [keys |-> [k \in 1..Cardinality(components[c]) |->
                        g.nodes[Ascending(components[c])[k]].key],
            dependencies |->
              {number(j) : j \in UNION {Adjacent(g, i) : i \in components[c]}}
                \ {c}]],
      rootComponents |->
        SelectSeq([c \in DOMAIN components |-> c],
                  LAMBDA c : \E i \in components[c] : IsRoot(g.nodes[i]))]
\* The graphs convertGraphToTree is called with: three nodes, each with
\* isRoot true, false or absent, and at most MaxTreeLinks links, self-links
\* among them.
MaxTreeLinks == 4
TreeKeys == <<"a", "b", "c">>
RootFlags == {"true", "false", "absent"}
TreeNode(key, flag) ==
  IF flag = "absent" THEN [key |-> key]
  ELSE [key |-> key, isRoot |-> (flag = "true")]
TreeLinkUniverse ==
  <<Link("a", "b"), Link("b", "a"), Link("b", "c"), Link("c", "b"),
    Link("a", "c"), Link("c", "a"), Link("a", "a"), Link("b", "b"),
    Link("c", "c")>>
TreeLinkSets ==
  {S \in SUBSET (DOMAIN TreeLinkUniverse) : Cardinality(S) <= MaxTreeLinks}
TreeGraphs ==
  {[nodes |-> [i \in DOMAIN TreeKeys |-> TreeNode(TreeKeys[i], flags[i])],
    links |-> [i \in 1..Cardinality(S) |-> TreeLinkUniverse[Ascending(S)[i]]]] :
     flags \in [DOMAIN TreeKeys -> RootFlags], S \in TreeLinkSets}

-----------------------------------------------------------------------------
(* installLocalStore: the steps of its phases *)

\* The promise installLocalStore returns.
Unsettled == [kind |-> "pending", message |-> NoError]
Resolved == [kind |-> "resolved", message |-> NoError]
Pending == iresult.kind = "pending"

\* A rejection reaches the caller unless the promise is settled already.
Reject(error) ==
  IF Pending THEN [kind |-> "rejected", message |-> error] ELSE iresult

\* Mutant: a phase is started without awaiting the one before it.
MutNotAwaited(pending) == TRUE

\* await Promise.all(...), await copyFiles(...), await executeTree(...):
\* the call goes on when no promise of the phase is left unsettled.
Awaited(pending) == pending = {}

\* locationMap.get(key)!
Get(map, key) == IF key \in DOMAIN map THEN map[key] ELSE <<UndefinedStr>>

\* copyDir(source, destination, filesActions): the directories below source
\* are made below destination, the files are left to copyFiles.
\* (options.filesToExclude is undefined.)
copyDir(F, source, destination) ==
  LET below == {q \in DOMAIN F : IsPrefix(source, q) /\ q # source}
      to(q) == join(destination, SubSeq(q, Len(source) + 1, Len(q)))
      made == {to(q) : q \in {r \in below : IsDirectory(F, r)}}
  IN [fs |-> [p \in (DOMAIN F) \cup made |->
                IF p \in DOMAIN F THEN F[p] ELSE Directory],
      actions |-> {[src |-> q, dest |-> to(q)] :
                     q \in {r \in below : IsFile(F, r)}}]

\* cmdShim(binLoc, binLink)
Shim(binLoc) == File(<<"shim">> \o binLoc)
IsShim(entry) ==
  entry.type = "file" /\ entry.data # << >> /\ entry.data[1] = "shim"

\* const queue = new PQueue({ concurrency: 300 })
Concurrency == 300

\* queue.add(task): the task runs at once if fewer than Concurrency tasks
\* are running, else it waits.
QueueAdd(q, task) ==
  IF Cardinality(q.running) < Concurrency
  THEN [q EXCEPT !.running = @ \cup {task}]
  ELSE [q EXCEPT !.waiting = Append(@, task)]

\* A running task is over: the first waiting task is started.
QueueDone(q, task) ==
  IF q.waiting = << >>
  THEN [q EXCEPT !.running = @ \ {task}]
  ELSE [running |-> (q.running \ {task}) \cup {Head(q.waiting)},
        waiting |-> Tail(q.waiting)]

Queued(q) == q.running \cup Range(q.waiting)

\* Mutant: the link points at the location the node was given.
MutLinkTargetIsNodeLocation(g, map, link) == FindNode(g, link.target).location

\* What the symlink of a link points at: locationMap.get(link.target)
LinkTarget(g, map, link) == Get(map, link.target)

\* The callback of runScripts (twice in the source) for the node at i.
ManifestPath(i) == join(Get(locationMap, inGraph.nodes[i].key), PackageJson)
Declares(i, script) == script \in Range(fs[ManifestPath(i)].data)
\* fs.statSync(package.json), then the manifest is read
Begin(i) == IF Exists(fs, ManifestPath(i)) THEN "reading" ELSE "done"
AfterInstall(i) == IF Declares(i, "postinstall") THEN "postinstall" ELSE "done"
AfterRead(i) == IF Declares(i, "install") THEN "install" ELSE AfterInstall(i)

\* The graphs installLocalStore is called with.
InGraphs ==
  {WithDefects(BaseGraph(aInPlace, cName, S), D) :
     aInPlace \in BOOLEAN, cName \in {"y", "@s/z"}, S \in LinkSets,
     D \in DefectSets}

\* convertGraphToTree(addSelfLinks(g)) for each of these graphs whose links
\* join nodes of the graph, computed once.
Trees ==
  [g \in {h \in InGraphs :
            \A l \in DOMAIN h.links :
              {h.links[l].source, h.links[l].target} \subseteq Range(Keys(h))}
     |-> convertGraphToTree(addSelfLinks(g))] @@ EmptyMap

\* tree, and the indexes of the nodes of a component
Tree == Trees[inGraph]
Members(c) ==
  {i \in DOMAIN inGraph.nodes :
     inGraph.nodes[i].key \in Range(Tree.components[c].keys)}

\* batchPromises(100, graph.nodes, ...): the batches of 100 nodes
BatchSize == 100
BatchOf(k) == {i \in DOMAIN inGraph.nodes : (i - 1) \div BatchSize = k - 1}
NumBatches == (Len(inGraph.nodes) + BatchSize - 1) \div BatchSize
Running(pass, S) == {i \in S : scripts[<<pass, i>>] # "done"}

\* createDependencyGraph is not called.
ResolverIdle ==
  /\ manifests = << >>
  /\ resolutionMap = EmptyMap
  /\ failOnMissingPeerDependencies = UndefinedStr
  /\ graph = NewGraph
  /\ peerDeps = << >>
  /\ watchDog = 0
  /\ pc = "idle"
  /\ result = [kind |-> "none"]
  /\ console = << >>
  /\ processed = {}
  /\ retried = << >>

InstallInit ==
  /\ ResolverIdle
  /\ TreeIdle
  /\ \E g \in InGraphs, cExists \in BOOLEAN, kind \in StoreKinds :
       /\ inGraph = g
       /\ location = StoreLocation(kind)
       /\ fs = SourceDisk(cExists) @@ StoreDisk(kind)
  /\ ignoreBinConflicts \in IgnoreBinConflictsInputs
  /\ fs0 = fs
  /\ ipc = "validateInput"
  /\ iresult = Unsettled
  /\ locationMap = EmptyMap
  /\ filesActions = {}
  /\ nodesPending = {}
  /\ copyPending = {}
  /\ linksPending = {}
  /\ binsPending = {}
  /\ scripts = [k \in {1, 2} \X DOMAIN inGraph.nodes |-> "waiting"]
  /\ batch = 0
  /\ scriptFailure = "none"
  /\ queue = [running |-> {}, waiting |-> << >>]

InstallInputs == <<inGraph, location, ignoreBinConflicts, fs0>>

\* installLocalStore up to its first await: validateInput throws, or the
\* promises of installNodesInStore are made.
InstallLocalStore ==
  /\ ipc = "validateInput"
  /\ LET error == validateInput(fs, inGraph, location, ignoreBinConflicts)
     IN IF error # NoError
        THEN /\ iresult' = Reject(error)
             /\ ipc' = "done"
             /\ UNCHANGED nodesPending
        ELSE /\ ipc' = "installNodesInStore"
             /\ nodesPending' = DOMAIN inGraph.nodes
             /\ UNCHANGED iresult
  /\ UNCHANGED <<rvars, tvars, InstallInputs, scriptFailure, queue, fs, locationMap, filesActions,
                 copyPending, linksPending, binsPending, scripts, batch>>

\* installNodesInStore: the promise of one node
InstallNode(i) ==
  /\ i \in nodesPending
  /\ nodesPending' = nodesPending \ {i}
  /\ LET n == inGraph.nodes[i]
         destination ==
           IF n.keepInPlace THEN n.location ELSE join(location, <<n.key>>)
     IN IF n.keepInPlace
        THEN /\ fs' = rmdir(fs, join(destination, <<"node_modules">>))
             /\ locationMap' = Put(locationMap, n.key, destination)
             /\ UNCHANGED <<filesActions, iresult>>
        ELSE IF MkdirFails(fs, destination)
        THEN /\ iresult' = Reject(<<"mkdir fails:">> \o destination)
             /\ UNCHANGED <<fs, locationMap, filesActions>>
        ELSE IF ~Exists(fs, n.location)
        THEN \* fs.readdirSync(source) throws
             /\ fs' = Put(fs, destination, Directory)
             /\ iresult' = Reject(<<"ENOENT:">> \o n.location)
             /\ UNCHANGED <<locationMap, filesActions>>
        ELSE LET r == copyDir(Put(fs, destination, Directory), n.location,
                              destination)
             IN /\ fs' = r.fs
                /\ filesActions' = filesActions \cup r.actions
                /\ locationMap' = Put(locationMap, n.key, destination)
                /\ UNCHANGED iresult
  /\ UNCHANGED <<rvars, tvars, InstallInputs, scriptFailure, queue, ipc, copyPending, linksPending,
                 binsPending, scripts, batch>>

\* await installNodesInStore(...); copyFiles(filesActions) is called.
CallCopyFiles ==
  /\ ipc = "installNodesInStore"
  /\ Pending
  /\ Awaited(nodesPending)
  /\ ipc' = "copyFiles"
  /\ copyPending' = filesActions
  /\ UNCHANGED <<rvars, tvars, InstallInputs, scriptFailure, queue, fs, iresult, locationMap, filesActions,
                 nodesPending, linksPending, binsPending, scripts, batch>>

\* A worker copies one file: fs.copyFile(a.src, a.dest, 0, ...)
CopyFile(a) ==
  /\ a \in copyPending
  /\ copyPending' = copyPending \ {a}
  /\ fs' = IF IsFile(fs, a.src) /\ IsDirectory(fs, dirname(a.dest))
           THEN Put(fs, a.dest, fs[a.src])
           ELSE fs
  /\ UNCHANGED <<rvars, tvars, InstallInputs, scriptFailure, queue, ipc, iresult, locationMap,
                 filesActions, nodesPending, linksPending, binsPending,
                 scripts, batch>>

\* await copyFiles(...); addSelfLinks; linkNodes(newGraph, ...) is called.
CallLinkNodes ==
  /\ ipc = "copyFiles"
  /\ Pending
  /\ Awaited(copyPending)
  /\ ipc' = "linkNodes"
  /\ linksPending' = DOMAIN addSelfLinks(inGraph).links
  /\ UNCHANGED <<rvars, tvars, InstallInputs, scriptFailure, queue, fs, iresult, locationMap, filesActions,
                 nodesPending, copyPending, binsPending, scripts, batch>>

\* linkNodes: the promise of one link
LinkNode(l) ==
  /\ l \in linksPending
  /\ linksPending' = linksPending \ {l}
  /\ LET newGraph == addSelfLinks(inGraph)
         link == newGraph.links[l]
         name == FindNode(newGraph, link.target).name
         path == join(Get(locationMap, link.source),
                      <<"node_modules">> \o NameSegments(name))
         made == mkdirRecursive(fs, dirname(path))
     IN IF MkdirRecursiveFails(fs, dirname(path))
        THEN /\ iresult' = Reject(<<"mkdir fails:">> \o dirname(path))
             /\ UNCHANGED fs
        ELSE IF Exists(made, path)
        THEN /\ fs' = made
             /\ iresult' = Reject(<<"EEXIST:">> \o path)
        ELSE /\ fs' = Put(made, path,
                          Symlink(LinkTarget(newGraph, locationMap, link)))
             /\ UNCHANGED iresult
  /\ UNCHANGED <<rvars, tvars, InstallInputs, scriptFailure, queue, ipc, locationMap, filesActions,
                 nodesPending, copyPending, binsPending, scripts, batch>>

\* await linkNodes(...); createBins(newGraph, ...) is called: the promise of
\* a link whose target has no bins is settled at once.
CallCreateBins ==
  /\ ipc = "linkNodes"
  /\ Pending
  /\ Awaited(linksPending)
  /\ ipc' = "createBins"
  /\ LET newGraph == addSelfLinks(inGraph)
     IN binsPending' =
          {<<l, 0>> : l \in {j \in DOMAIN newGraph.links :
             FindNode(newGraph, newGraph.links[j].target).bins.defined}}
  /\ UNCHANGED <<rvars, tvars, InstallInputs, scriptFailure, queue, fs, iresult, locationMap, filesActions,
                 nodesPending, copyPending, linksPending, scripts, batch>>

\* for (const [binName, binLocation] of bins): the bins of the target of
\* the link l, and where the promise <<l, b>> stands after its bin b.
BinsOf(l) ==
  LET newGraph == addSelfLinks(inGraph)
  IN FindNode(newGraph, newGraph.links[l].target).bins.entries
AfterBin(t) == IF t[2] < Len(BinsOf(t[1])) THEN {<<t[1], t[2] + 1>>} ELSE {}
BinLoc(t) ==
  join(Get(locationMap, addSelfLinks(inGraph).links[t[1]].target),
       BinsOf(t[1])[t[2]][2])
BinLink(t) ==
  join(Get(locationMap, addSelfLinks(inGraph).links[t[1]].source),
       <<"node_modules", ".bin", BinsOf(t[1])[t[2]][1]>>)

\* createBins: the promise of one link makes node_modules/.bin
CreateBin(t) ==
  /\ t \in binsPending
  /\ t[2] = 0
  /\ LET link == addSelfLinks(inGraph).links[t[1]]
         binDir == join(Get(locationMap, link.source),
                        <<"node_modules", ".bin">>)
     IN IF MkdirRecursiveFails(fs, binDir)
        THEN /\ iresult' = Reject(<<"mkdir fails:">> \o binDir)
             /\ binsPending' = binsPending \ {t}
             /\ UNCHANGED fs
        ELSE /\ fs' = mkdirRecursive(fs, binDir)
             /\ binsPending' = (binsPending \ {t}) \cup AfterBin(t)
             /\ UNCHANGED iresult
  /\ UNCHANGED <<rvars, tvars, InstallInputs, scriptFailure, queue, ipc, locationMap,
                 filesActions, nodesPending, copyPending, linksPending,
                 scripts, batch>>

\* createBins: fs.promises.stat(binLoc); a bin whose file is missing is
\* skipped, else cmdShim is handed to the queue.
AddShim(t) ==
  /\ t \in binsPending \ Queued(queue)
  /\ t[2] > 0
  /\ IF Exists(fs, BinLoc(t))
     THEN /\ queue' = QueueAdd(queue, t)
          /\ UNCHANGED binsPending
     ELSE /\ binsPending' = (binsPending \ {t}) \cup AfterBin(t)
          /\ UNCHANGED queue
  /\ UNCHANGED <<rvars, tvars, InstallInputs, scriptFailure, fs, ipc, iresult,
                 locationMap, filesActions, nodesPending, copyPending,
                 linksPending, scripts, batch>>

\* The queue runs cmdShim(binLoc, binLink); the promise goes on.
RunShim(t) ==
  /\ t \in queue.running
  /\ fs' = Put(fs, BinLink(t), Shim(BinLoc(t)))
  /\ queue' = QueueDone(queue, t)
  /\ binsPending' = (binsPending \ {t}) \cup AfterBin(t)
  /\ UNCHANGED <<rvars, tvars, InstallInputs, scriptFailure, ipc, iresult,
                 locationMap, filesActions, nodesPending, copyPending,
                 linksPending, scripts, batch>>

\* await createBins(...); runScripts: convertGraphToTree, executeTree.
CallRunScripts ==
  /\ ipc = "createBins"
  /\ Pending
  /\ Awaited(binsPending)
  /\ ipc' = "executeTree"
  /\ UNCHANGED <<rvars, tvars, InstallInputs, scriptFailure, queue, fs, iresult, locationMap, filesActions,
                 nodesPending, copyPending, linksPending, binsPending, scripts,
                 batch>>

\* executeTree(tree, executor) calls executor(c) once the components c
\* depends on have completed: the callbacks of its packages start together.
CanStart(c) ==
  /\ \A i \in Members(c) : scripts[<<1, i>>] = "waiting"
  /\ \A d \in Tree.components[c].dependencies : Running(1, Members(d)) = {}

StartComponent(c) ==
  /\ CanStart(c)
  /\ scripts' = [k \in DOMAIN scripts |->
                   IF k[1] = 1 /\ k[2] \in Members(c)
                   THEN Begin(k[2]) ELSE scripts[k]]
  /\ UNCHANGED <<rvars, tvars, InstallInputs, scriptFailure, queue, fs, ipc, iresult, locationMap,
                 filesActions, nodesPending, copyPending, linksPending,
                 binsPending, batch>>

ExecuteTree ==
  /\ ipc = "executeTree"
  /\ \E c \in DOMAIN Tree.components : StartComponent(c)

\* package.json is read: the install script is started if there is one,
\* else the postinstall script.
ReadManifest(k) ==
  /\ scripts[k] = "reading"
  /\ scripts' = [scripts EXCEPT ![k] = AfterRead(k[2])]
  /\ UNCHANGED <<rvars, tvars, InstallInputs, scriptFailure, queue, fs, ipc, iresult, locationMap,
                 filesActions, nodesPending, copyPending, linksPending,
                 binsPending, batch>>

\* The exit status of a script, as far as the claims tell them apart.
ExitCodes == {"zero", "nonZero"}

\* child.on("exit"): the script is over and the callback goes on, whatever
\* the exit code.
ScriptExit(k) ==
  /\ scripts[k] \in {"install", "postinstall"}
  /\ scripts' = [scripts EXCEPT ![k] = IF scripts[k] = "install"
                                       THEN AfterInstall(k[2]) ELSE "done"]
  /\ \E code \in ExitCodes :
       scriptFailure' = IF code = "nonZero" /\ scriptFailure = "none"
                        THEN "exit" ELSE scriptFailure
  /\ UNCHANGED <<rvars, tvars, InstallInputs, queue, fs, ipc, iresult, locationMap,
                 filesActions, nodesPending, copyPending, linksPending,
                 binsPending, batch>>

\* child.on("error"): the script could not be spawned, the callback rejects.
ScriptError(k) ==
  /\ scripts[k] \in {"install", "postinstall"}
  /\ scripts' = [scripts EXCEPT ![k] = "failed"]
  /\ scriptFailure' = "spawn"
  /\ iresult' = Reject(<<"spawn error">>)
  /\ UNCHANGED <<rvars, tvars, InstallInputs, queue, fs, ipc, locationMap, filesActions,
                 nodesPending, copyPending, linksPending, binsPending, batch>>

\* await executeTree(...), then batchPromises: the callbacks of the next 100
\* nodes start once those of the batch before are over.
StartBatch ==
  /\ Pending
  /\ IF batch = 0
     THEN ipc = "executeTree" /\ Awaited(Running(1, DOMAIN inGraph.nodes))
     ELSE /\ ipc = "batchPromises"
          /\ batch < NumBatches
          /\ Awaited(Running(2, BatchOf(batch)))
  /\ ipc' = "batchPromises"
  /\ batch' = batch + 1
  /\ scripts' = [k \in DOMAIN scripts |->
                   IF k[1] = 2 /\ k[2] \in BatchOf(batch + 1)
                   THEN Begin(k[2]) ELSE scripts[k]]
  /\ UNCHANGED <<rvars, tvars, InstallInputs, scriptFailure, queue, fs, iresult, locationMap, filesActions,
                 nodesPending, copyPending, linksPending, binsPending>>

\* await batchPromises(...): installLocalStore resolves.
Resolve ==
  /\ ipc = "batchPromises"
  /\ Pending
  /\ batch = NumBatches
  /\ Awaited(Running(2, BatchOf(batch)))
  /\ ipc' = "done"
  /\ iresult' = Resolved
  /\ UNCHANGED <<rvars, tvars, InstallInputs, scriptFailure, queue, fs, locationMap, filesActions,
                 nodesPending, copyPending, linksPending, binsPending, scripts,
                 batch>>

InstallNext ==
  \/ InstallLocalStore
  \/ \E i \in nodesPending : InstallNode(i)
  \/ CallCopyFiles
  \/ \E a \in copyPending : CopyFile(a)
  \/ CallLinkNodes
  \/ \E l \in linksPending : LinkNode(l)
  \/ CallCreateBins
  \/ \E t \in binsPending : CreateBin(t)
  \/ \E t \in binsPending : AddShim(t)
  \/ \E t \in queue.running : RunShim(t)
  \/ CallRunScripts
  \/ ExecuteTree
  \/ \E k \in DOMAIN scripts : ReadManifest(k)
  \/ \E k \in DOMAIN scripts : ScriptExit(k)
  \/ \E k \in DOMAIN scripts : ScriptError(k)
  \/ StartBatch
  \/ Resolve

InstallSpec == InstallInit /\ [][InstallNext]_vars

-----------------------------------------------------------------------------
(* convertGraphToTree called on its own *)

TreeInit ==
  /\ ResolverIdle
  /\ InstallerIdle
  /\ treeGraph \in TreeGraphs
  /\ tree = NoTree

\* const tree = convertGraphToTree(graph)
ConvertGraphToTree ==
  /\ tree = NoTree
  /\ tree' = convertGraphToTree(treeGraph)
  /\ UNCHANGED <<rvars, ivars, treeGraph>>

TreeNext == ConvertGraphToTree

TreeSpec == TreeInit /\ [][TreeNext]_vars

-----------------------------------------------------------------------------
(* What the claims speak of *)

Returned == pc = "done"

OutNodes == result.graph.nodes
OutLinks == result.graph.links
OutIds == {OutNodes[i].id : i \in DOMAIN OutNodes}
OutNode(id) == OutNodes[CHOOSE i \in DOMAIN OutNodes : OutNodes[i].id = id]
OutChildren(id) ==
  {OutLinks[i].targetId : i \in {j \in DOMAIN OutLinks :
                                   OutLinks[j].sourceId = id}}

ManifestOf(name, version) ==
  manifests[CHOOSE i \in DOMAIN manifests :
              manifests[i].name = name /\ manifests[i].version = version]

\* The names a manifest links to as regular dependencies.
RegularNames(m) ==
  {m.dependencies[i].name : i \in DOMAIN m.dependencies}
    \cup {m.optionalDependencies[i].name : i \in DOMAIN m.optionalDependencies}
    \cup (IF m.isLocal
          THEN {m.devDependencies[i].name : i \in DOMAIN m.devDependencies}
          ELSE {})

\* The peer names a manifest declares, and those that are not optional.
PeerNames(m) == {CombinedPeers(m)[i].targetName : i \in DOMAIN CombinedPeers(m)}
RequiredPeerNames(m) ==
  {CombinedPeers(m)[i].targetName :
     i \in {j \in DOMAIN CombinedPeers(m) : ~CombinedPeers(m)[j].optional}}

InternalIds == DOMAIN graph.reversedNodes
IsLocalId(id) == graph.reversedNodes[id].isLocal
IsVirtual(id) == DOMAIN graph.reversedNodes[id].peerDeps # {}
ChildrenOf(id) == Range(GetOrEmpty(graph.links, id))

RECURSIVE Closure(_)
\* The ids reachable from S through forward links.
Closure(S) ==
  LET T == S \cup UNION {ChildrenOf(x) : x \in S}
  IN IF T = S THEN S ELSE Closure(T)

ReachableFromLocal == Closure({id \in InternalIds : IsLocalId(id)})

(* C1: in every returned graph, for every link P -> S with S non-local and *)
(* n a peer name of S's manifest that is no regular dependency of S: if P  *)
(* has a child named n, S links to that child (and to no other node named  *)
(* n); failing that, if P is named n, S links to P.                        *)
C1_ChildSeesParentsPeer ==
  Returned =>
    \A k \in DOMAIN OutLinks :
      LET P == OutLinks[k].sourceId
          S == OutLinks[k].targetId
          mS == ManifestOf(OutNode(S).name, OutNode(S).version)
      IN ~mS.isLocal =>
           \A n \in PeerNames(mS) \ RegularNames(mS) :
             LET provided == {c \in OutChildren(P) : OutNode(c).name = n}
                 seen == {c \in OutChildren(S) : OutNode(c).name = n}
             IN IF provided # {}
                THEN seen # {} /\ seen \subseteq provided
                ELSE OutNode(P).name = n => P \in seen

(* C2: with failOnMissingPeerDependencies true, in every returned graph    *)
(* every non-local node links, for each non-optional peer name of its      *)
(* manifest, to a node of that name.                                       *)
C2_UnmetPeerIsAnError ==
  (Returned /\ FailOnMissing) =>
    \A i \in DOMAIN OutNodes :
      LET m == ManifestOf(OutNodes[i].name, OutNodes[i].version)
      IN ~m.isLocal =>
           \A n \in RequiredPeerNames(m) :
             \E c \in OutChildren(OutNodes[i].id) : OutNode(c).name = n

(* C3: at every step no two internal nodes have the same (name, version)  *)
(* and equal peer_deps, and two entries that resolve the same source's     *)
(* peer to the same provider are rewired to the same virtual node.         *)
C3_OneNodePerPeerDeps ==
  /\ \A i \in DOMAIN graph.nodes :
       \A a \in DOMAIN graph.nodes[i].list, b \in DOMAIN graph.nodes[i].list :
         a # b => graph.nodes[i].list[a].peerDeps
                    # graph.nodes[i].list[b].peerDeps
  /\ \A x \in InternalIds, y \in InternalIds :
       (/\ x # y
        /\ graph.reversedNodes[x].name = graph.reversedNodes[y].name
        /\ graph.reversedNodes[x].version = graph.reversedNodes[y].version)
       => graph.reversedNodes[x].peerDeps # graph.reversedNodes[y].peerDeps
  /\ \A p \in processed, q \in processed :
       (/\ p.tag = "id" /\ q.tag = "id"
        /\ p.entry.sourceId = q.entry.sourceId
        /\ p.entry.targetName = q.entry.targetName
        /\ p.provider = q.provider)
       => p.chosen = q.chosen

\* Two parents resolved the same source's peer to the same provider.
C3_Witness ==
  \E p \in processed, q \in processed :
    /\ p.tag = "id" /\ q.tag = "id"
    /\ p.entry.parentId # q.entry.parentId
    /\ p.entry.sourceId = q.entry.sourceId
    /\ p.entry.targetName = q.entry.targetName
    /\ p.provider = q.provider

(* C4: peer dependencies of local packages are never resolved: no entry    *)
(* whose source is local is processed, no local node is virtualized, and   *)
(* each local (name, version) is returned exactly once.                    *)
C4_LocalPeersNeverResolved ==
  /\ \A p \in processed : ~IsLocalId(p.entry.sourceId)
  /\ \A id \in InternalIds : IsLocalId(id) => ~IsVirtual(id)
  /\ Returned =>
       \A i \in DOMAIN manifests :
         manifests[i].isLocal =>
           Cardinality({k \in DOMAIN OutNodes :
                          /\ OutNodes[k].name = manifests[i].name
                          /\ OutNodes[k].version = manifests[i].version}) = 1

\* The links of the final internal graph that leave a reachable node.
ReachableLinks ==
  {st \in ReachableFromLocal \X InternalIds : st[2] \in ChildrenOf(st[1])}

(* C5: a node is emitted iff its internal node is reachable from a local   *)
(* node, and every emitted link joins two emitted nodes: the links that    *)
(* leave the reachable nodes, and no others.                               *)
C5_ReachableNodesOnly ==
  Returned =>
    /\ Len(OutNodes) = Cardinality(ReachableFromLocal)
    /\ \A i \in DOMAIN graph.nodes :
         Cardinality({k \in DOMAIN OutNodes :
                        /\ OutNodes[k].name = graph.nodes[i].name
                        /\ OutNodes[k].version = graph.nodes[i].version})
           = Cardinality({id \in ReachableFromLocal :
                            /\ graph.reversedNodes[id].name = graph.nodes[i].name
                            /\ graph.reversedNodes[id].version
                                 = graph.nodes[i].version})
    /\ \A k \in DOMAIN OutLinks :
         OutLinks[k].sourceId \in OutIds /\ OutLinks[k].targetId \in OutIds
    /\ Len(OutLinks) = Cardinality(ReachableLinks)

\* A graph is returned that holds links, while an unreachable node has links
\* too, and a virtual node is among the reachable ones.
C5_Witness ==
  /\ Returned
  /\ OutLinks # << >>
  /\ \E id \in InternalIds \ ReachableFromLocal : ChildrenOf(id) # {}
  /\ \E id \in ReachableFromLocal : IsVirtual(id)

(* C6: in every returned graph a node's id is its position, the nodes are  *)
(* in non-decreasing (name, version) order and the links in strictly       *)
(* increasing (sourceId, targetId) order.                                  *)
C6_SortedAndDense ==
  Returned =>
    /\ \A i \in DOMAIN OutNodes : OutNodes[i].id = i - 1
    /\ \A i \in DOMAIN OutNodes, j \in DOMAIN OutNodes :
         i < j =>
           \/ StrRank(OutNodes[i].name) < StrRank(OutNodes[j].name)
           \/ /\ OutNodes[i].name = OutNodes[j].name
              /\ StrRank(OutNodes[i].version) <= StrRank(OutNodes[j].version)
    /\ \A i \in DOMAIN OutLinks, j \in DOMAIN OutLinks :
         i < j =>
           \/ OutLinks[i].sourceId < OutLinks[j].sourceId
           \/ /\ OutLinks[i].sourceId = OutLinks[j].sourceId
              /\ OutLinks[i].targetId < OutLinks[j].targetId

\* A returned graph with two versions of one name, a virtual copy and links
\* from several sources.
C6_Witness ==
  /\ Returned
  /\ Len(OutNodes) >= 4
  /\ \E i \in DOMAIN OutNodes, j \in DOMAIN OutNodes :
       /\ OutNodes[i].name = OutNodes[j].name
       /\ OutNodes[i].version # OutNodes[j].version
  /\ \E i \in DOMAIN OutNodes, j \in DOMAIN OutNodes :
       /\ i # j
       /\ OutNodes[i].name = OutNodes[j].name
       /\ OutNodes[i].version = OutNodes[j].version
  /\ \E i \in DOMAIN OutLinks, j \in DOMAIN OutLinks :
       OutLinks[i].sourceId # OutLinks[j].sourceId

-----------------------------------------------------------------------------
(* What the claims about installLocalStore speak of *)

\* The graph that is linked and condensed: the input with its self-links.
OnDisk == addSelfLinks(inGraph)

\* dest(n): the location of a node kept in place, else <store>/<key>.
Dest(n) == IF n.keepInPlace THEN n.location ELSE join(location, <<n.key>>)

\* <dest(source)>/node_modules/<name(target)> is a symlink to dest(target).
Linked(link) ==
  LET source == FindNode(inGraph, link.source)
      target == FindNode(inGraph, link.target)
      path == join(Dest(source), <<"node_modules">> \o NameSegments(target.name))
  IN Exists(fs, path) /\ fs[path] = Symlink(Dest(target))

\* The nodes at i and j are in two components, and a node of the first has
\* a link to a node of the second.
ComponentEdge(i, j) ==
  /\ j \notin ComponentOf(OnDisk, i)
  /\ \E a \in ComponentOf(OnDisk, i), b \in ComponentOf(OnDisk, j) :
       b \in Adjacent(OnDisk, a)

\* The package at i has a lifecycle script.
HasScripts(i) ==
  /\ Exists(fs, ManifestPath(i))
  /\ Declares(i, "install") \/ Declares(i, "postinstall")

\* A script of the callback k is running, or has run.
ScriptStarted(k) ==
  \/ scripts[k] \in {"install", "postinstall"}
  \/ scripts[k] = "done" /\ HasScripts(k[2])

\* This step starts a script of the callback k.
ScriptStarts(k) ==
  scripts'[k] \in {"install", "postinstall"} /\ scripts'[k] # scripts[k]

SymlinkMade == \E p \in DOMAIN fs : fs[p].type = "symlink"
ShimMade == \E p \in DOMAIN fs : IsShim(fs[p])
CopiesComplete ==
  /\ nodesPending = {}
  /\ copyPending = {}
  /\ \A a \in filesActions : Exists(fs, a.dest) /\ fs[a.dest] = fs[a.src]
LinksComplete ==
  /\ linksPending = {}
  /\ \A l \in DOMAIN OnDisk.links : Linked(OnDisk.links[l])
ShimsComplete ==
  /\ binsPending = {}
  /\ ipc \in {"executeTree", "batchPromises", "done"}

(* C7: for every edge A -> B of the component DAG, every execution of a
   lifecycle script of a node of B is over before any execution of a script
   of a node of A starts: when a step starts a script of a node, no script
   run of a node its component depends on is running or still to come. *)
C7_ScriptsFollowTheDag ==
  [][\A k \in DOMAIN scripts :
       ScriptStarts(k) =>
         \A j \in DOMAIN inGraph.nodes :
           ComponentEdge(k[2], j) /\ HasScripts(j)
             => \A pass \in {1, 2} : scripts[<<pass, j>>] = "done"]_vars

(* C8: the phases are strictly ordered: a symlink exists only when every
   file is copied, a bin shim only when every symlink is made, and a script
   has started only when every symlink and every bin shim is made. *)
C8_PhasesInOrder ==
  /\ SymlinkMade => CopiesComplete
  /\ ShimMade => LinksComplete
  /\ (\E k \in DOMAIN scripts : ScriptStarted(k))
       => LinksComplete /\ ShimsComplete

C8_Witness ==
  /\ ipc = "batchPromises"
  /\ filesActions # {}
  /\ SymlinkMade
  /\ ShimMade
  /\ \E k \in DOMAIN scripts : scripts[k] = "postinstall"

(* C9: every validation check is made before the file system is touched:
   when one of the three checks fails on the input, the call is rejected
   with the message of a failing check and the disk is as it was at the
   call (nothing made, purged, copied or linked). *)
C9_ValidationBeforeMutation ==
  LET failures ==
        {getLocationError(fs0, location), getGraphError(fs0, inGraph),
         getBinError(inGraph, ignoreBinConflicts)} \ {NoError}
  IN (ipc \notin {"idle", "validateInput"} /\ failures # {})
       => /\ iresult.kind = "rejected"
          /\ iresult.message \in failures
          /\ fs = fs0
          /\ locationMap = EmptyMap
          /\ filesActions = {}
          /\ nodesPending = {}

C9_Witness ==
  /\ ipc = "done"
  /\ iresult.kind = "rejected"
  /\ getLocationError(fs0, location) = NoError
  /\ getGraphError(fs0, inGraph) = NoError
  /\ iresult.message = getBinError(inGraph, ignoreBinConflicts)
  /\ fs = fs0

(* C10: after a successful install, for every link s -> t of the input
   graph, dest(s)/node_modules/<name(t)> exists and is a symlink to
   dest(t) (a scoped name gives node_modules/<scope>/<name>). *)
C10_EveryLinkOnDisk ==
  iresult.kind = "resolved"
    => \A l \in DOMAIN inGraph.links : Linked(inGraph.links[l])

C10_Witness ==
  /\ iresult.kind = "resolved"
  /\ \E l \in DOMAIN inGraph.links :
       /\ FindNode(inGraph, inGraph.links[l].source).keepInPlace
       /\ FindNode(inGraph, inGraph.links[l].target).name = "@s/z"
       /\ Linked(inGraph.links[l])
  /\ \E l \in DOMAIN inGraph.links :
       inGraph.links[l].source = inGraph.links[l].target

\* validateInput accepted the input.
Validated ==
  /\ ipc \notin {"idle", "validateInput"}
  /\ validateInput(fs0, inGraph, location, ignoreBinConflicts) = NoError

\* linkNodes was called and all its promises are settled.
LinkingOver ==
  /\ ipc \in {"linkNodes", "createBins", "executeTree", "batchPromises", "done"}
  /\ linksPending = {}

\* <dest(n)>/node_modules/<name(n)> is a symlink to dest(n).
SelfLinked(n) == Linked(Link(n.key, n.key))

(* C11: for every input graph that passes validation, once the install has
   made its links every node has dest/node_modules/<own name> linked to its
   own dest, whether or not the input declares the self-link, and no
   self-link is made twice. *)
C11_SelfLinkForEveryNode ==
  Validated =>
    /\ \A i \in DOMAIN inGraph.nodes :
         Cardinality({l \in DOMAIN OnDisk.links :
                        OnDisk.links[l] = Link(inGraph.nodes[i].key,
                                               inGraph.nodes[i].key)}) = 1
    /\ LinkingOver =>
         \A i \in DOMAIN inGraph.nodes : SelfLinked(inGraph.nodes[i])

\* The callback k has started the given script of its package.
Ran(k, script) ==
  /\ Exists(fs, ManifestPath(k[2]))
  /\ Declares(k[2], script)
  /\ IF script = "install"
     THEN scripts[k] \in {"install", "postinstall", "done"}
     ELSE scripts[k] \in {"postinstall", "done"}

\* How many times the script of the package at i has been started.
Executions(i, script) == Cardinality({k \in DOMAIN scripts :
                                        k[2] = i /\ Ran(k, script)})

(* C13: during one installLocalStore call no install and no postinstall
   script of a package is started more than once, and when the call has
   resolved every declared install or postinstall script has been run
   exactly once. *)
C13_EachScriptOnce ==
  \A i \in DOMAIN inGraph.nodes : \A script \in {"install", "postinstall"} :
    /\ Executions(i, script) <= 1
    /\ (/\ iresult = Resolved
        /\ Exists(fs, ManifestPath(i))
        /\ Declares(i, script)) => Executions(i, script) = 1

(* C12: when an install or postinstall script has exited with a non-zero
   status, or could not be spawned, installLocalStore does not resolve
   successfully. *)
C12_ScriptFailurePropagates ==
  scriptFailure # "none" => iresult # Resolved

\* The operations in flight: the mkdir or symlink of each unsettled promise
\* of linkNodes, the mkdir of node_modules/.bin of createBins, and the shims
\* the queue is running.
LinkOperations == linksPending
BinDirOperations == {t \in binsPending : t[2] = 0}
ShimOperations == queue.running

(* C14: at no point of an install are more than the limiter's cap of
   symlink, mkdir and shim-creation operations in flight: every such
   operation in flight holds one of the limiter's slots, so none is in
   flight that the limiter has not admitted. *)
C14_OneLimiterForAll ==
  /\ Cardinality(LinkOperations) + Cardinality(BinDirOperations)
       + Cardinality(ShimOperations) <= Concurrency
  /\ LinkOperations = {}
  /\ BinDirOperations = {}

\* The rules of validation in the order of the claim.
RuleOrder ==
  <<"store", "keys", "locations", "names", "linkSource", "linkTarget",
    "sameName", "binNames", "binConflicts">>

\* The input violates the rule.
Violates(rule) ==
  LET g == inGraph
  IN CASE rule = "store" -> getLocationError(fs0, location) # NoError
       [] rule = "keys" -> findDups(Keys(g)) # NoError
       [] rule = "locations" ->
            \E i \in DOMAIN g.nodes :
              \/ ~isAbsolute(g.nodes[i].location)
              \/ /\ Exists(fs0, g.nodes[i].location)
                 /\ ~IsDirectory(fs0, g.nodes[i].location)
       [] rule = "names" -> \E i \in DOMAIN g.nodes : ~ValidName(g.nodes[i].name)
       [] rule = "linkSource" ->
            \E l \in DOMAIN g.links : ~HasKey(g, g.links[l].source)
       [] rule = "linkTarget" ->
            \E l \in DOMAIN g.links : ~HasKey(g, g.links[l].target)
       [] rule = "sameName" -> findDependenciesWithSameName(g) # << >>
       [] rule = "binNames" ->
            \E i \in DOMAIN g.nodes : \E b \in DOMAIN g.nodes[i].bins.entries :
              InvalidBinName(g.nodes[i].bins.entries[b][1])
       [] rule = "binConflicts" -> getBinError(g, ignoreBinConflicts) # NoError

RECURSIVE FirstViolatedFrom(_)
\* The first rule of the order, from the i-th on, that the input violates.
FirstViolatedFrom(i) ==
  IF i > Len(RuleOrder) THEN "none"
  ELSE IF Violates(RuleOrder[i]) THEN RuleOrder[i]
  ELSE FirstViolatedFrom(i + 1)

\* The rule an error message of validateInput belongs to.
RuleOfMessage(message) ==
  CASE message[1] \in {"Location is not an absolute path:",
                       "Location does not exist:",
                       "Location is not a directory:",
                       "Location is not an empty directory:"} -> "store"
    [] message[1] = "Multiple nodes have the following key:" -> "keys"
    [] message[1] \in {"Location of a node is not absolute:",
                       "Location of a node is not a directory:"} -> "locations"
    [] message[1] = "Package name invalid:" -> "names"
    [] message[1] = "Invalid link source:" -> "linkSource"
    [] message[1] = "Invalid link target:" -> "linkTarget"
    [] message[1] = "Package"
         /\ message[3] = "depends on multiple packages called" -> "sameName"
    [] message[1] = "Package"
         /\ message[3] = "exposes a bin script with an invalid name:"
         -> "binNames"
    [] message[1] = "Several different scripts called" -> "binConflicts"

\* validateInput has thrown.
ValidationFailed == ipc = "done" /\ iresult.kind = "rejected"

(* C15: when validateInput rejects an input, the error it reports is that of
   the first rule the input violates in the order: store location, unique
   keys, node locations (absolute and, if present, a directory), package
   names, link sources, link targets, same-named targets of one source, bin
   names, bin conflicts. *)
C15_FirstViolatedRuleWins ==
  ValidationFailed => RuleOfMessage(iresult.message) = FirstViolatedFrom(1)

(* What the claims about the resolution map speak of *)

Threw == pc = "threw"

\* The regular dependencies a manifest declares: its dependencies and, for
\* a local manifest, its devDependencies.
RegularDecls(m) ==
  Range(m.dependencies) \cup (IF m.isLocal THEN Range(m.devDependencies) ELSE {})

\* The resolution map has the name and, under it, the range.
HasEntry(d) ==
  /\ d.name \in DOMAIN resolutionMap
  /\ d.range \in DOMAIN resolutionMap[d.name]

\* The version the resolution map gives for a declaration that has an entry.
Resolves(d) == resolutionMap[d.name][d.range]

\* The output nodes made from a manifest: the node and its virtual copies.
OutNodesOf(m) ==
  {OutNodes[i].id : i \in {j \in DOMAIN OutNodes :
                             /\ OutNodes[j].name = m.name
                             /\ OutNodes[j].version = m.version}}

\* The output node links to the package the declaration resolves to.
LinksTo(id, d) ==
  \E c \in OutChildren(id) :
    OutNode(c).name = d.name /\ OutNode(c).version = Resolves(d)

(* C16: whenever createDependencyGraph returns a graph, every dependency of
   every manifest, and every devDependency of every local manifest, has its
   name and range in the resolution map, and every output node of that
   manifest links to the package it resolves to: with a regular dependency
   whose name or range is absent the call fails, no graph is returned with
   the dependency silently missing. *)
C16_MissingEntryFails ==
  Returned =>
    \A i \in DOMAIN manifests : \A d \in RegularDecls(manifests[i]) :
      /\ HasEntry(d)
      /\ \A id \in OutNodesOf(manifests[i]) : LinksTo(id, d)

\* The call has failed on an input that declares a regular dependency whose
\* range is absent from the resolution map.
C16_Witness ==
  /\ Threw
  /\ \E i \in DOMAIN manifests : \E d \in RegularDecls(manifests[i]) :
       d.name \in DOMAIN resolutionMap /\ ~HasEntry(d)

OptionalDecls(m) == Range(m.optionalDependencies)

\* The input has a manifest of that name and version.
HasManifest(name, version) ==
  \E i \in DOMAIN manifests :
    manifests[i].name = name /\ manifests[i].version = version

\* In a returned graph every optional dependency has its entry in the
\* resolution map, and is linked exactly when its target has a manifest.
OptionalDeclsResolved ==
  Returned =>
    \A i \in DOMAIN manifests : \A d \in OptionalDecls(manifests[i]) :
      /\ HasEntry(d)
      /\ \A id \in OutNodesOf(manifests[i]) :
           LinksTo(id, d) <=> HasManifest(d.name, Resolves(d))

\* The optionalDependencies pass does not fail when every optional
\* dependency has its entry, whether or not the target has a manifest.
OptionalPassGoesOn ==
  (/\ pc = "addOptionalDependencies"
   /\ \A i \in DOMAIN manifests : \A d \in OptionalDecls(manifests[i]) :
        HasEntry(d))
  => pc' = "addPeerLinks"

(* C17: an optionalDependency whose resolution entry exists but whose
   resolved (name, version) has no manifest adds no link and raises no
   error, the resolution goes on; an optionalDependency whose name or range
   is absent from the resolution map makes the call fail, so no graph is
   returned for an input that declares one. *)
C17_OnlyMissingTargetSkipped ==
  /\ []OptionalDeclsResolved
  /\ [][OptionalPassGoesOn]_vars

-----------------------------------------------------------------------------
(* createDependencyGraph as a function of its arguments, for the claims
   that compare the call with the call on another input: the passes and the
   iterations of the actions above, run to the end. *)

RECURSIVE PeerLoop(_, _, _, _)
\* while (peerDeps.length !== 0) { ... }; return graph.toJson()
PeerLoop(G, queued, dog, failOnMissing) ==
  IF queued = << >> \/ dog = 0
  THEN [kind |-> "graph", graph |-> toJson(G)]
  ELSE LET peerDep == Head(queued)
           rest == Tail(queued)
           r == resolveChild(G, peerDep, failOnMissing)
           existingVirtualNode ==
             getVirtualNode(G, peerDep.sourceId, peerDep.targetName, r.id)
           G1 == createVirtualNode(G, peerDep.sourceId, peerDep.targetName,
                                   r.id)
           reused == rest \o EntriesFor(G, peerDep.parentId,
                                        existingVirtualNode)
           created == rest \o EntriesFor(G1, peerDep.parentId, G.nodeCounter)
                           \o ChildEntries(G1, G.nodeCounter)
       IN IF IsStale(G, peerDep)
          THEN PeerLoop(G, rest, Len(rest) + 1, failOnMissing)
          ELSE IF r.tag \in {"ignored", "failed"}
          THEN PeerLoop(G, rest, dog, failOnMissing)
          ELSE IF r.tag = "throw"
          THEN [kind |-> "error", error |-> "Unmet peer dependency"]
          ELSE IF r.tag = "retryLater"
          THEN PeerLoop(G, Append(rest, peerDep), dog - 1, failOnMissing)
          ELSE IF existingVirtualNode # UndefinedId
          THEN PeerLoop(changeChildren(G, peerDep.parentId, peerDep.sourceId,
                                       existingVirtualNode),
                        reused, Len(reused) + 1, failOnMissing)
          ELSE PeerLoop(changeChildren(G1, peerDep.parentId, peerDep.sourceId,
                                       G.nodeCounter),
                        created, Len(created) + 1, failOnMissing)

createDependencyGraph(ms, rm, failOnMissing) ==
  LET deps == AddLinksPass(AddNodes(NewGraph, ms), rm, ms, "dep")
      devs == AddLinksPass(deps.graph, rm, ms, "dev")
      opts == AddLinksPass(devs.graph, rm, ms, "opt")
      G == AddPeerLinksPass(opts.graph, ms)
      first == getPeerLinks(G)
  IN IF deps.error # "none" THEN [kind |-> "error", error |-> deps.error]
     ELSE IF devs.error # "none" THEN [kind |-> "error", error |-> devs.error]
     ELSE IF opts.error # "none" THEN [kind |-> "error", error |-> opts.error]
     ELSE PeerLoop(G, first, Len(first) + 1, failOnMissing)

\* The call is over: it has returned or thrown.
Over == pc \in {"done", "threw"}

\* The manifests in another order: the one at p[i] comes i-th.
Reordered(ms, p) == [i \in DOMAIN ms |-> ms[p[i]]]

\* The orders the manifests are given in, next to the one of the input.
Reorderings == { <<5, 4, 3, 2, 1>>, <<4, 2, 3, 1, 5>> }

\* How many members of a sequence have each key.
Counts(seq, key(_)) ==
  [k \in {key(seq[i]) : i \in DOMAIN seq} |->
     Cardinality({i \in DOMAIN seq : key(seq[i]) = k})]

\* A returned graph up to the numbering of its nodes: how many nodes of
\* each (name, version) it has, and how many links between each two.
Shape(g) ==
  LET node(id) == g.nodes[CHOOSE i \in DOMAIN g.nodes : g.nodes[i].id = id]
      package(n) == <<n.name, n.version>>
      ends(l) == <<package(node(l.sourceId)), package(node(l.targetId))>>
  IN [nodes |-> Counts(g.nodes, package), links |-> Counts(g.links, ends)]

\* Two calls fail both, or return the same nodes and links.
SameOutcome(r, s) ==
  /\ r.kind = s.kind
  /\ r.kind = "graph" => Shape(r.graph) = Shape(s.graph)

(* C18: the outcome of createDependencyGraph does not depend on the order of
   the manifests: the call on the same manifests in another order, with the
   same resolution map, fails if the call has failed, and else returns the
   same nodes and links. *)
C18_OrderOfManifests ==
  Over =>
    \A p \in Reorderings :
      SameOutcome(result,
                  createDependencyGraph(Reordered(manifests, p), resolutionMap,
                                        FailOnMissing))

\* The manifests with every range of peerDependencies replaced by range.
WithPeerRange(ms, range) ==
  [i \in DOMAIN ms |->
     [ms[i] EXCEPT !.peerDependencies =
        [k \in DOMAIN @ |-> [@[k] EXCEPT !.range = range]]]]

\* The ranges the peers are given instead: "*" is satisfied by every
\* version, "^3" by none of the versions of the model.
PeerRanges == {"*", "^3"}

(* C19: two calls of createDependencyGraph on inputs that differ only in
   the range strings of peerDependencies have the same outcome: the call on
   the manifests with other peer ranges fails with the same error if the
   call has failed, and else returns the identical graph; a provider whose
   version does not satisfy the range is linked all the same. *)
C19_PeerRangesDoNotMatter ==
  Over =>
    \A range \in PeerRanges :
      createDependencyGraph(WithPeerRange(manifests, range), resolutionMap,
                            FailOnMissing) = result

\* The call has returned a graph in which a node is linked to the provider
\* of a peer whose version does not satisfy the declared range.
C19_Witness ==
  /\ Returned
  /\ \E p \in processed :
       /\ p.tag = "id"
       /\ ~SemverSatisfies(graph.reversedNodes[p.provider].version,
                           p.entry.targetRange)
       /\ p.chosen \in ReachableFromLocal

\* The children of an internal node that have the given name.
ChildrenNamed(id, name) ==
  {c \in ChildrenOf(id) : graph.reversedNodes[c].name = name}

\* The source of the entry has a forward child named as the peer.
SelfFulfilled(peerDep) ==
  ChildrenNamed(peerDep.sourceId, peerDep.targetName) # {}

\* The versions the regular dependencies of that name of a node's manifest
\* resolve to: dependencies, optionalDependencies and, for a local manifest,
\* devDependencies.
RegularVersions(id, name) ==
  LET m == ManifestOf(graph.reversedNodes[id].name,
                      graph.reversedNodes[id].version)
      decls == RegularDecls(m) \cup OptionalDecls(m)
  IN {Resolves(d) : d \in {x \in decls : x.name = name /\ HasEntry(x)}}

\* The step that pops an entry whose source has a child of the peer's name
\* leaves the graph as it is, does not queue the entry again, raises no
\* error and prints no warning.
SelfFulfilledStep ==
  (Iterating /\ SelfFulfilled(Head(peerDeps))) =>
    /\ graph' = graph
    /\ peerDeps' = Tail(peerDeps)
    /\ pc' = pc
    /\ result' = result
    /\ console' = console

\* In a returned graph the children of that name of such a source are its
\* regular dependencies of that name, and nothing else.
SelfFulfilledOutput ==
  Returned =>
    \A p \in processed :
      (p.tag = "ignored" /\ SelfFulfilled(p.entry)) =>
        LET named == ChildrenNamed(p.entry.sourceId, p.entry.targetName)
        IN {graph.reversedNodes[c].version : c \in named}
             = {v \in RegularVersions(p.entry.sourceId, p.entry.targetName) :
                  HasManifest(p.entry.targetName, v)}

(* C20: when a pending peer {parent, source, target_name} is popped and
   source has a forward child named target_name, the step leaves the graph
   unchanged (no node created, no link added or removed), the entry is not
   queued again and no error is raised; in the returned graph the children
   of that name of the source are its regular dependencies. *)
C20_SelfFulfilledPeerIgnored ==
  /\ [][SelfFulfilledStep]_vars
  /\ []SelfFulfilledOutput

\* The call has returned after it ignored the peer of a node, reachable
\* from a local package, that has a regular dependency of the same name.
C20_Witness ==
  /\ Returned
  /\ \E p \in processed :
       /\ p.tag = "ignored"
       /\ SelfFulfilled(p.entry)
       /\ p.entry.sourceId \in ReachableFromLocal

\* The parent of the entry provides the peer: a child of the parent, or the
\* parent itself, has the peer's name.
HasProvider(peerDep) ==
  FirstNamed(graph, Candidates(graph, peerDep.parentId), peerDep.targetName)
    # UndefinedId

\* The entry the loop handles next is an optional peer that the source does
\* not fulfil itself and that has no provider.
OptionalUnmet ==
  /\ Iterating
  /\ ~IsStale(graph, Head(peerDeps))
  /\ Head(peerDeps).optional
  /\ ~SelfFulfilled(Head(peerDeps))
  /\ ~HasProvider(Head(peerDeps))

\* Its step raises no error, adds no link, makes no node and prints nothing.
OptionalUnmetStep ==
  OptionalUnmet =>
    /\ graph' = graph
    /\ peerDeps' = Tail(peerDeps)
    /\ pc' = pc
    /\ result' = result
    /\ console' = console

\* With a provider, the optional flag of an entry makes no difference.
OptionalProvided ==
  Iterating =>
    \A i \in DOMAIN peerDeps :
      HasProvider(peerDeps[i]) =>
        resolveChild(graph, [peerDeps[i] EXCEPT !.optional = TRUE],
                     FailOnMissing)
          = resolveChild(graph, [peerDeps[i] EXCEPT !.optional = FALSE],
                         FailOnMissing)

(* C21: an optional peer dependency that has no provider is ignored: its
   step raises no error, also when failOnMissingPeerDependencies is true,
   adds no link and makes no virtual node; when a provider exists the peer
   is resolved to it exactly as a peer that is not optional. *)
C21_OptionalPeerIgnored ==
  /\ [][OptionalUnmetStep]_vars
  /\ []OptionalProvided

\* With failOnMissingPeerDependencies true the call has returned after an
\* optional peer without provider was ignored, and after an optional peer
\* with a provider was linked.
C21_Witness ==
  /\ Returned
  /\ FailOnMissing
  /\ \E p \in processed :
       p.tag = "ignored" /\ p.entry.optional /\ ~SelfFulfilled(p.entry)
  /\ \E p \in processed : p.tag = "id" /\ p.entry.optional

\* The entry the loop handles next is a peer that is not optional, that the
\* source does not fulfil itself and that has no provider.
Unmet ==
  /\ Iterating
  /\ ~IsStale(graph, Head(peerDeps))
  /\ ~Head(peerDeps).optional
  /\ ~SelfFulfilled(Head(peerDeps))
  /\ ~HasProvider(Head(peerDeps))

\* With failOnMissingPeerDependencies false its step raises no error and
\* leaves the graph as it is; unless the parent has pending peers of its own
\* (the entry is then queued again) the entry is dropped with a warning.
UnmetStep ==
  (Unmet /\ ~FailOnMissing) =>
    /\ graph' = graph
    /\ pc' = pc
    /\ result' = result
    /\ ~hasPeerLink(graph, Head(peerDeps).parentId) =>
         /\ peerDeps' = Tail(peerDeps)
         /\ console' = Append(console, Warning(graph, "unmet", Head(peerDeps),
                                               UndefinedStr))

\* With failOnMissingPeerDependencies false no unmet-peer error is raised:
\* the call fails in the dependency passes only.
NoUnmetError ==
  (Threw /\ ~FailOnMissing) =>
    /\ result.error # "Unmet peer dependency"
    /\ \A p \in processed : p.tag # "throw"

(* C22: with failOnMissingPeerDependencies false createDependencyGraph
   never raises an unmet-peer error: the step of an unmet peer that is not
   optional yields `failed`, rewires nothing and makes no node, and the call
   goes on to return a graph. *)
C22_UnmetPeerOnlyWarns ==
  /\ [][UnmetStep]_vars
  /\ []NoUnmetError

\* With failOnMissingPeerDependencies false the call has returned a graph
\* after a peer was found unmet.
C22_Witness ==
  /\ Returned
  /\ ~FailOnMissing
  /\ \E p \in processed : p.tag = "failed"

\* The nodes of the input that are kept in place.
KeptInPlace == {i \in DOMAIN inGraph.nodes : inGraph.nodes[i].keepInPlace}

\* What is on disk below <location of the node at i>/node_modules.
NodeModulesOf(i) ==
  {p \in DOMAIN fs :
     IsPrefix(join(inGraph.nodes[i].location, <<"node_modules">>), p)}

\* The step that makes the first symlink or shim of the install starts
\* where no node kept in place has anything left of its node_modules.
FirstLinkStep ==
  (~SymlinkMade /\ ~ShimMade /\ (SymlinkMade' \/ ShimMade')) =>
    \A i \in KeptInPlace : i \notin nodesPending /\ NodeModulesOf(i) = {}

\* A node kept in place is its own destination: nothing of it is handed to
\* copyFiles, <store>/<key> is not made, and once linkNodes is over its
\* links are in <location>/node_modules.
InPlace ==
  Validated =>
    \A i \in KeptInPlace :
      LET n == inGraph.nodes[i]
      IN /\ \A a \in filesActions :
              /\ ~IsPrefix(n.location, a.src)
              /\ ~IsPrefix(join(location, <<n.key>>), a.dest)
         /\ ~Exists(fs, join(location, <<n.key>>))
         /\ n.key \in DOMAIN locationMap => locationMap[n.key] = n.location
         /\ LinkingOver =>
              \A l \in DOMAIN OnDisk.links :
                OnDisk.links[l].source = n.key =>
                  LET name == FindNode(inGraph, OnDisk.links[l].target).name
                      path == join(n.location,
                                   <<"node_modules">> \o NameSegments(name))
                  IN Exists(fs, path) /\ fs[path].type = "symlink"

(* C23: a node with keepInPlace is installed at its own location: its
   content is not copied and no <store>/<key> is made for it, what its
   node_modules held is removed before any symlink or shim of any node is
   made, and its links are then made under <location>/node_modules. *)
C23_KeptInPlaceNode ==
  /\ [][FirstLinkStep]_vars
  /\ []InPlace

\* The install of a graph whose node kept in place has a link to another
\* node has resolved: its node_modules, not empty before, holds the link.
C23_Witness ==
  /\ iresult = Resolved
  /\ 1 \in KeptInPlace
  /\ \E l \in DOMAIN inGraph.links : inGraph.links[l] = Link("a", "b")
  /\ NodeModulesOf(1) # {}
  /\ Linked(Link("a", "b"))
  /\ Exists(fs0, <<"/", "pa", "node_modules", "y">>)

\* The nodes whose location is not on disk when installLocalStore is called.
MissingLocation == {i \in DOMAIN inGraph.nodes : ~Exists(fs0, inGraph.nodes[i].location)}

\* installNodesInStore is done with the node at i.
NodeInstalled(i) == Validated /\ i \notin nodesPending

(* C24: a node whose location is an absolute path that does not exist
   passes validation and is installed as an empty package: once
   installNodesInStore is done with it its destination is a directory
   without content, the node has its entry in locationMap for the links to
   be made, and the install is not rejected for the missing location. *)
C24_MissingLocationIsEmptyPackage ==
  \A i \in MissingLocation :
    NodeInstalled(i) =>
      LET n == inGraph.nodes[i]
      IN /\ IsDirectory(fs, Dest(n))
         /\ \A p \in DOMAIN fs : IsPrefix(Dest(n), p) /\ p # Dest(n) =>
              IsPrefix(join(Dest(n), <<"node_modules">>), p)
         /\ n.key \in DOMAIN locationMap
         /\ iresult # [kind |-> "rejected",
                       message |-> <<"ENOENT:">> \o n.location]

\* validateInput accepts the input.
ValidInput == validateInput(fs0, inGraph, location, ignoreBinConflicts) = NoError

\* The links of the input lead from the node at i to the node at j and back.
Mutual(i, j) ==
  /\ j \in ReachableIndexes(inGraph, Adjacent(inGraph, i))
  /\ i \in ReachableIndexes(inGraph, Adjacent(inGraph, j))

\* The input is valid and its links have a cycle: a self-link, or links
\* from a node to another and back.
CyclicInput == ValidInput /\ \E i \in DOMAIN inGraph.nodes : Mutual(i, i)

\* The keys of the nodes at i and j are in one component of the tree.
SameComponent(i, j) ==
  \E c \in DOMAIN Tree.components :
    {inGraph.nodes[i].key, inGraph.nodes[j].key}
      \subseteq Range(Tree.components[c].keys)

\* No node has a link to another node of its own name (its self-link would
\* share the path), every location is on disk, no package that is copied
\* brings a node_modules of its own, and every script is spawned.
NothingElseFails ==
  /\ MissingLocation = {}
  /\ \A i \in DOMAIN inGraph.nodes \ KeptInPlace :
       ~Exists(fs0, join(inGraph.nodes[i].location, <<"node_modules">>))
  /\ scriptFailure # "spawn"
  /\ \A l \in DOMAIN inGraph.links :
       inGraph.links[l].source # inGraph.links[l].target =>
         FindNode(inGraph, inGraph.links[l].source).name
           # FindNode(inGraph, inGraph.links[l].target).name

\* The members of a cycle are in one component; the call settles as
\* resolved, and then the callbacks of the members of a cycle, of both
\* passes, have run to their end.
CycleInstalled ==
  CyclicInput =>
    /\ \A i, j \in DOMAIN inGraph.nodes : Mutual(i, j) => SameComponent(i, j)
    /\ (NothingElseFails /\ ~Pending) => iresult = Resolved
    /\ iresult = Resolved =>
         \A i \in DOMAIN inGraph.nodes :
           Mutual(i, i) => scripts[<<1, i>>] = "done" /\ scripts[<<2, i>>] = "done"

\* What is left to do, as a number: the phases to come weigh more than all
\* the promises of a phase, a promise of createBins weighs what it has yet
\* to go through, a callback of runScripts the stages before it.
PhaseOrder ==
  <<"done", "batchPromises", "executeTree", "createBins", "linkNodes",
    "copyFiles", "installNodesInStore", "validateInput">>
PhasesLeft == CHOOSE k \in DOMAIN PhaseOrder : PhaseOrder[k] = ipc
StagesLeft(stage) ==
  CASE stage = "waiting" -> 4
    [] stage = "reading" -> 3
    [] stage = "install" -> 2
    [] stage = "postinstall" -> 1
    [] OTHER -> 0
RECURSIVE Sum(_, _)
Sum(f, S) ==
  IF S = {} THEN 0
  ELSE LET x == CHOOSE y \in S : TRUE IN f[x] + Sum(f, S \ {x})
BinWork(t) ==
  2 * (Len(BinsOf(t[1])) - t[2]) + (IF t \in Queued(queue) THEN 1 ELSE 2)
WorkLeft ==
  100 * PhasesLeft
  + (NumBatches - batch)
  + Cardinality(nodesPending) + Cardinality(copyPending)
  + Cardinality(linksPending)
  + Sum([t \in binsPending |-> BinWork(t)], binsPending)
  + Sum([k \in DOMAIN scripts |-> StagesLeft(scripts[k])], DOMAIN scripts)

\* Every step of the install leaves less to do: no step can be taken for
\* ever.
Progresses == CyclicInput => WorkLeft' < WorkLeft

\* While the call is pending there is a step to take: nothing waits for
\* what cannot come.
NotStuck ==
  (Pending /\ CyclicInput) =>
    \/ ipc = "executeTree" /\ \E c \in DOMAIN Tree.components : CanStart(c)
    \/ ENABLED \/ \E k \in DOMAIN scripts : ReadManifest(k)
               \/ \E k \in DOMAIN scripts : ScriptExit(k)
               \/ \E k \in DOMAIN scripts : ScriptError(k)
               \/ StartBatch
               \/ Resolve
               \/ \E t \in queue.running : RunShim(t)
               \/ \E t \in binsPending : AddShim(t)
               \/ \E t \in binsPending : CreateBin(t)
               \/ CallRunScripts
               \/ \E l \in linksPending : LinkNode(l)
               \/ CallCreateBins
               \/ \E a \in copyPending : CopyFile(a)
               \/ CallLinkNodes
               \/ \E i \in nodesPending : InstallNode(i)
               \/ CallCopyFiles
               \/ InstallLocalStore

(* C25: installLocalStore terminates successfully on valid graphs whose
   links have cycles (links from A to B and back, explicit self-links):
   neither linking nor the scripts wait or go on for ever, since every step
   leaves less to do and a pending call always has a step to take; the
   members of a cycle are in one component, and when nothing else fails the
   call resolves with the scripts of every member run. *)
C25_CyclesInstall ==
  /\ [][Progresses]_vars
  /\ []NotStuck
  /\ []CycleInstalled

\* The install of a graph with links from a to b and back has resolved, and
\* so has one of a graph with an explicit self-link; a's scripts have run.
C25_MutualWitness ==
  /\ iresult = Resolved
  /\ Mutual(1, 2)
  /\ SameComponent(1, 2)
  /\ Ran(<<1, 1>>, "install")

(* What the claims about convertGraphToTree speak of *)

\* convertGraphToTree has returned.
Converted == tree # NoTree

\* The graph has a link from the key k to the key m.
HasLink(k, m) ==
  \E l \in DOMAIN treeGraph.links : treeGraph.links[l] = Link(k, m)

\* Links lead from the key k to the key m: by no link at all when k = m,
\* else through at most all the nodes.
LeadsTo(k, m) ==
  \E n \in 1..Len(treeGraph.nodes) :
    \E p \in [1..n -> Range(TreeKeys)] :
      /\ p[1] = k
      /\ p[n] = m
      /\ \A x \in 1..(n - 1) : HasLink(p[x], p[x + 1])

\* The components the key k is in.
ComponentsOfKey(k) ==
  {c \in DOMAIN tree.components : k \in Range(tree.components[c].keys)}

\* Some node of the component c has a link to some node of d.
LinkBetween(c, d) ==
  \E k \in Range(tree.components[c].keys),
     m \in Range(tree.components[d].keys) : HasLink(k, m)

\* The dependencies lead from the component c to d in one step or more.
DependsOn(c, d) ==
  \E n \in 2..(Len(tree.components) + 1) :
    \E p \in [1..n -> DOMAIN tree.components] :
      /\ p[1] = c
      /\ p[n] = d
      /\ \A x \in 1..(n - 1) : p[x + 1] \in tree.components[p[x]].dependencies

(* C26: for every graph the components convertGraphToTree returns
   partition the keys of the nodes: each key is in exactly one component
   and once in it, and two keys share a component iff links lead from each
   to the other; the dependencies of a component are exactly the other
   components a link from one of its nodes leads into, never the component
   itself, whatever self-links or cycles its nodes have; and no chain of
   dependencies comes back to a component. *)
C26_ComponentsAreTheCondensation ==
  Converted =>
    /\ \A k \in Range(TreeKeys) : Cardinality(ComponentsOfKey(k)) = 1
    /\ \A c \in DOMAIN tree.components :
         LET keys == tree.components[c].keys
         IN /\ keys # << >>
            /\ Range(keys) \subseteq Range(TreeKeys)
            /\ \A x, y \in DOMAIN keys : keys[x] = keys[y] => x = y
    /\ \A k, m \in Range(TreeKeys) :
         (ComponentsOfKey(k) = ComponentsOfKey(m))
           <=> (LeadsTo(k, m) /\ LeadsTo(m, k))
    /\ \A c \in DOMAIN tree.components :
         tree.components[c].dependencies
           = {d \in DOMAIN tree.components : d # c /\ LinkBetween(c, d)}
    /\ \A c \in DOMAIN tree.components : ~DependsOn(c, c)

\* The tree of a graph with links from a to b and back, a self-link of a
\* and a link from b to c: two components, the first depends on the second.
C26_Witness ==
  /\ Converted
  /\ HasLink("a", "b") /\ HasLink("b", "a") /\ HasLink("a", "a")
  /\ HasLink("b", "c")
  /\ Len(tree.components) = 2
  /\ \E c, d \in DOMAIN tree.components :
       /\ c # d
       /\ tree.components[c].dependencies = {d}
       /\ tree.components[d].dependencies = {}

\* The components with a node flagged isRoot.
FlaggedComponents ==
  {c \in DOMAIN tree.components :
     \E i \in DOMAIN treeGraph.nodes :
       /\ IsRoot(treeGraph.nodes[i])
       /\ treeGraph.nodes[i].key \in Range(tree.components[c].keys)}

\* The nodes flagged isRoot.
Roots == {i \in DOMAIN treeGraph.nodes : IsRoot(treeGraph.nodes[i])}

(* C27: for every graph the rootComponents convertGraphToTree returns are
   exactly the components with at least one node flagged isRoot, each
   listed once; for a graph with a single root there is exactly one root
   component, and the key of the root is among its keys. *)
C27_RootComponents ==
  Converted =>
    /\ Range(tree.rootComponents) = FlaggedComponents
    /\ \A x, y \in DOMAIN tree.rootComponents :
         tree.rootComponents[x] = tree.rootComponents[y] => x = y
    /\ \A i \in Roots :
         Roots = {i} =>
           /\ Len(tree.rootComponents) = 1
           /\ treeGraph.nodes[i].key
                \in Range(tree.components[tree.rootComponents[1]].keys)

\* The tree of a graph whose single root b is in a cycle with a, a node
\* that is listed before it and is not flagged; c, flagged false, is a
\* dependency.
C27_Witness ==
  /\ Converted
  /\ Roots = {2}
  /\ HasLink("a", "b") /\ HasLink("b", "a") /\ HasLink("b", "c")
  /\ "isRoot" \in DOMAIN treeGraph.nodes[3]
  /\ Len(tree.rootComponents) = 1
  /\ Range(tree.components[tree.rootComponents[1]].keys) = {"a", "b"}

\* The rules validateInput checks before the one on same-named targets are
\* kept by the input.
EarlierRulesPass ==
  \A k \in 1..6 : ~Violates(RuleOrder[k])

\* The sources with links to two distinct nodes of one name, and the name.
SameNamedTargets ==
  {<<inGraph.links[i].source, FindNode(inGraph, inGraph.links[i].target).name>> :
     i \in {x \in DOMAIN inGraph.links :
              \E y \in DOMAIN inGraph.links :
                /\ inGraph.links[x].source = inGraph.links[y].source
                /\ inGraph.links[x].target # inGraph.links[y].target
                /\ FindNode(inGraph, inGraph.links[x].target).name
                     = FindNode(inGraph, inGraph.links[y].target).name}}

\* validateInput fails with: Package "<src>" depends on multiple packages
\* called "<name>".
SameNameError(error) ==
  /\ Len(error) = 4
  /\ error[1] = "Package"
  /\ error[3] = "depends on multiple packages called"

(* C28: when the rules before it are kept, validateInput fails with
   'Package "<src>" depends on multiple packages called "<name>"' if and
   only if some source has links to two distinct nodes of one name, and
   then for such a source and name; nodes of one name that no source has
   links to two of are accepted by this rule. *)
C28_SameNamedTargetsOnly ==
  EarlierRulesPass =>
    LET error == validateInput(fs0, inGraph, location, ignoreBinConflicts)
    IN /\ SameNameError(error) <=> SameNamedTargets # {}
       /\ SameNameError(error) => <<error[2], error[4]>> \in SameNamedTargets

\* The targets of the links of a source, in the input graph.
TargetsOf(source) ==
  {inGraph.links[l].target :
     l \in {x \in DOMAIN inGraph.links : inGraph.links[x].source = source}}

\* The sources with links to two distinct nodes whose bins have a name in
\* common, with the name.
BinConflicts ==
  {c \in {inGraph.links[l].source : l \in DOMAIN inGraph.links}
          \X UNION {Range(BinNames(inGraph, inGraph.links[l].target)) :
                      l \in DOMAIN inGraph.links} :
     \E t, u \in TargetsOf(c[1]) :
       /\ t # u
       /\ c[2] \in Range(BinNames(inGraph, t))
       /\ c[2] \in Range(BinNames(inGraph, u))}

\* The shims that the targets of the source that expose the bin would have
\* at <dest(source)>/node_modules/.bin/<bin>.
ShimsFor(source, bin) ==
  {Shim(join(Dest(FindNode(inGraph, t)),
             LET entries == FindNode(inGraph, t).bins.entries
             IN entries[CHOOSE e \in DOMAIN entries : entries[e][1] = bin][2])) :
     t \in {u \in TargetsOf(source) : bin \in Range(BinNames(inGraph, u))}}

\* createBins was called and all its promises are settled.
BinsOver ==
  /\ ipc \in {"createBins", "executeTree", "batchPromises", "done"}
  /\ binsPending = {}

\* validateInput fails with: Several different scripts called "<bin>" need
\* to be installed at the same location (<src>).
BinConflictError(error) ==
  /\ Len(error) = 4
  /\ error[1] = "Several different scripts called"

\* Without ignoreBinConflicts a conflict is reported, for a source and a bin
\* in conflict, when the rules before this one are kept.
ConflictReported ==
  LET error == validateInput(fs0, inGraph, location, ignoreBinConflicts)
  IN (/\ \A k \in 1..8 : ~Violates(RuleOrder[k])
      /\ ~Truthy(ignoreBinConflicts)
      /\ BinConflicts # {}) =>
       /\ BinConflictError(error)
       /\ <<error[4], error[2]>> \in BinConflicts

\* With ignoreBinConflicts true no conflict is reported, and once createBins
\* is over a source in conflict has, for the bin, the shim of one of the
\* targets that expose it.
ConflictIgnored ==
  Truthy(ignoreBinConflicts) =>
    /\ ~BinConflictError(validateInput(fs0, inGraph, location,
                                       ignoreBinConflicts))
    /\ (Validated /\ BinsOver) =>
         \A c \in BinConflicts :
           LET binLink == join(Dest(FindNode(inGraph, c[1])),
                               <<"node_modules", ".bin", c[2]>>)
           IN /\ Exists(fs, binLink)
              /\ fs[binLink] \in ShimsFor(c[1], c[2])

(* C29: with ignoreBinConflicts unset or false, validation fails with
   'Several different scripts called "<bin>" need to be installed at the
   same location (<src>).' whenever some source has two targets whose bins
   expose the same name; with ignoreBinConflicts true that check never
   fails, and the install goes on to install the shim of one of them. *)
C29_BinConflicts ==
  /\ ConflictReported
  /\ ConflictIgnored

\* An install with ignoreBinConflicts true has resolved for a graph in
\* which a has links to b and to c, whose bins are both called run and both
\* have their file: a's .bin/run is the shim of one of them.
C29_Witness ==
  /\ iresult = Resolved
  /\ Truthy(ignoreBinConflicts)
  /\ <<"a", "run">> \in BinConflicts
  /\ Cardinality(ShimsFor("a", "run")) = 2
  /\ IsShim(fs[join(Dest(FindNode(inGraph, "a")), <<"node_modules", ".bin", "run">>)])

\* How many entries the manifests have in the given fields.
Declared(fields) ==
  Sum([k \in (DOMAIN manifests) \X fields |-> Len(manifests[k[1]][k[2]])],
      (DOMAIN manifests) \X fields)

\* The virtual nodes made so far: every manifest has its node before the loop.
VirtualNodes == graph.nodeCounter - Len(manifests)

\* The peers that are pending below the links of the graph: for each link,
\* those of its target.
PendingBelow(G) ==
  Sum([k \in {<<p, c>> \in (DOMAIN G.links) \X (DOMAIN G.peerLinks) :
                c \in Range(G.links[p])} |-> Len(G.peerLinks[k[2]])],
      {<<p, c>> \in (DOMAIN G.links) \X (DOMAIN G.peerLinks) :
         c \in Range(G.links[p])})

\* An iteration makes a virtual node, or ends the call with an error, or
\* leaves less to do: with the graph as it was a shorter queue, or the same
\* queue and a smaller watchdog; else fewer pending peers below the links.
LoopProgresses ==
  Iterating =>
    \/ graph'.nodeCounter > graph.nodeCounter
    \/ pc' = "threw"
    \/ /\ graph' = graph
       /\ \/ Len(peerDeps') < Len(peerDeps)
          \/ Len(peerDeps') = Len(peerDeps) /\ watchDog' < watchDog
    \/ PendingBelow(graph') < PendingBelow(graph)

\* The virtual nodes are no more than the peers declared times the
\* dependencies declared; an entry that is not stale has one of the
\* outcomes the loop has a step for, and the call returns with the queue
\* empty or the watchdog at zero.
LoopBounded ==
  /\ VirtualNodes > 0 =>
       VirtualNodes <= Declared({"peerDependencies", "peerDependenciesMeta"})
                         * Declared({"dependencies", "devDependencies",
                                     "optionalDependencies"})
  /\ watchDog \in Nat
  /\ (Iterating /\ ~IsStale(graph, Head(peerDeps))) =>
       resolveChild(graph, Head(peerDeps), FailOnMissing).tag
         \in {"ignored", "failed", "throw", "retryLater", "id"}
  /\ Returned => peerDeps = << >> \/ watchDog = 0

(* C30: the peer-resolution loop terminates for every input, circular peer
   dependencies included: every iteration makes one of the boundedly many
   virtual nodes or leaves less to do, every entry has a step that takes
   it, and the call ends with the queue empty, the watchdog at zero or an
   error. *)
C30_PeerLoopTerminates ==
  /\ [][LoopProgresses]_vars
  /\ []LoopBounded

\* A call has returned for manifests in which B and C are peers of each
\* other and both were given their peer.
C30_Witness ==
  /\ Returned
  /\ \E p, q \in processed :
       /\ p.tag = "id" /\ q.tag = "id"
       /\ NameOf(graph, p.entry.sourceId) = "B" /\ p.entry.targetName = "C"
       /\ NameOf(graph, q.entry.sourceId) = "C" /\ q.entry.targetName = "B"

-----------------------------------------------------------------------------
(* The two link indexes of the Graph *)

\* The ids that occur in links or in reversedLinks, as keys or as members.
LinkIds(G) ==
  (DOMAIN G.links) \cup (DOMAIN G.reversedLinks)
    \cup UNION {Range(G.links[k]) : k \in DOMAIN G.links}
    \cup UNION {Range(G.reversedLinks[k]) : k \in DOMAIN G.reversedLinks}

\* target is in links[source] exactly when source is in reversedLinks[target].
IndexesAgree(G) ==
  /\ \A s \in DOMAIN G.links : \A t \in Range(G.links[s]) :
       t \in DOMAIN G.reversedLinks /\ s \in Range(G.reversedLinks[t])
  /\ \A t \in DOMAIN G.reversedLinks : \A s \in Range(G.reversedLinks[t]) :
       s \in DOMAIN G.links /\ t \in Range(G.links[s])

\* Every id of the indexes is a node of the graph.
EndpointsLive(G) == LinkIds(G) \subseteq DOMAIN G.reversedNodes

LinksConsistent(G) == IndexesAgree(G) /\ EndpointsLive(G)

\* Each mutation, applied to the graph the call ends with and with any nodes
\* for its arguments, leaves the indexes consistent: addLink between two
\* nodes, createVirtualNode of a node for a provider, changeChildren of a
\* link.
MutationsKeepConsistent ==
  LET ids == DOMAIN graph.reversedNodes
  IN Returned =>
     /\ \A s \in ids : \A t \in ids :
          /\ LinksConsistent(addLink(graph, s, t))
          /\ LinksConsistent(createVirtualNode(graph, s, NameOf(graph, t), t))
     /\ \A p \in DOMAIN graph.links : \A old \in Range(graph.links[p]) :
          \A new \in ids : LinksConsistent(changeChildren(graph, p, old, new))

(* C31: in every state of createDependencyGraph the forward and the reverse
   index describe the same links (target in links[source] iff source in
   reversedLinks[target]) and every id in either index is an existing node;
   addLink, createVirtualNode and changeChildren each keep it so. *)
C31_LinkIndexesConsistent ==
  /\ LinksConsistent(graph)
  /\ MutationsKeepConsistent

\* The call has returned after links were added, a virtual node was created
\* and a parent was rewired to it.
C31_Witness ==
  /\ Returned
  /\ graph.nodeCounter > Len(manifests)
  /\ \E p \in processed :
       /\ p.tag = "id"
       /\ p.chosen >= Len(manifests)
       /\ p.chosen \in Range(graph.links[p.entry.parentId])
       /\ p.entry.parentId \in Range(graph.reversedLinks[p.chosen])

-----------------------------------------------------------------------------
(* The watchdog of the peer resolution loop *)

\* The entries of the queue that were not shifted off it since the watchdog
\* was last set: the queue is these, then the entries queued again.
Unexamined == Len(peerDeps) - Len(retried)

\* The entry would be queued again by an iteration on the graph as it is.
RetriesLater(peerDep) ==
  /\ ~IsStale(graph, peerDep)
  /\ resolveChild(graph, peerDep, FailOnMissing).tag = "retryLater"

\* In the loop the queue ends with the entries queued again since the last
\* rewiring or stale entry, each of which returned retryLater, and the
\* watchdog is above the number of entries not examined since.
WatchDogCounts ==
  pc = "loop" =>
    /\ Unexamined >= 0
    /\ retried = SubSeq(peerDeps, Unexamined + 1, Len(peerDeps))
    /\ \A i \in DOMAIN retried : RetriesLater(retried[i])
    /\ Unexamined > 0 => watchDog > Unexamined

\* The loop is left with entries in the queue only with the watchdog at 0,
\* and then every entry of the queue was queued again since the last
\* rewiring or stale entry.
StopsAfterRevolution ==
  (pc \in {"loop", "done"} /\ ~Iterating /\ peerDeps # << >>) =>
    /\ watchDog = 0
    /\ retried = peerDeps
    /\ \A i \in DOMAIN peerDeps : RetriesLater(peerDeps[i])

(* C32: the loop stops with a non-empty queue only when the watchdog is 0,
   and then every entry of the queue has been shifted off it and has
   returned retryLater since the last rewiring or stale-entry drop; while
   an entry has not been examined since, the watchdog is not 0. *)
C32_WatchDogFullRevolution == WatchDogCounts /\ StopsAfterRevolution

\* The call has returned with the watchdog at 0 and two or more entries left
\* in the queue, after a parent was rewired to a virtual node.
C32_Witness ==
  /\ Returned
  /\ watchDog = 0
  /\ Len(peerDeps) >= 2
  /\ graph.nodeCounter > Len(manifests)

-----------------------------------------------------------------------------
(* Stale entries of the queue *)

\* The entry the loop handles next has a parent that no longer has a link
\* to its source.
StaleHead == Iterating /\ IsStale(graph, Head(peerDeps))

\* Its iteration only drops it and sets the watchdog: resolveChild is not
\* called, the graph is as it was, nothing is printed or thrown, and the
\* queue is the rest of the queue.
StaleStep ==
  StaleHead =>
    /\ peerDeps' = Tail(peerDeps)
    /\ watchDog' = Len(Tail(peerDeps)) + 1
    /\ graph' = graph
    /\ processed' = processed
    /\ console' = console
    /\ pc' = pc
    /\ result' = result

(* C33: an entry whose link parent -> source is absent from the forward
   index when it is shifted off the queue is discarded: no provider is
   searched, no node is created, no link is changed, nothing is thrown or
   printed, the entry is not queued again, and the watchdog is set to the
   length of the queue + 1. *)
C33_StaleEntryDropped == [][StaleStep]_vars

\* A stale entry is at the head of the queue, with other entries behind it
\* and a watchdog that its iteration changes.
C33_Witness ==
  /\ StaleHead
  /\ Len(peerDeps) >= 2
  /\ watchDog # Len(peerDeps)

-----------------------------------------------------------------------------
(* What createVirtualNode changes *)

\* The iteration of the entry at the head of the queue calls
\* createVirtualNode: a provider was found and no virtual node exists.
CreateCall ==
  /\ Iterating
  /\ ~IsStale(graph, Head(peerDeps))
  /\ resolveChild(graph, Head(peerDeps), FailOnMissing).tag = "id"
  /\ getVirtualNode(graph, Head(peerDeps).sourceId, Head(peerDeps).targetName,
                    resolveChild(graph, Head(peerDeps), FailOnMissing).id)
       = UndefinedId

\* The entries of a list of pending peers that are not named name, in the
\* order of the list.
Without(list, name) ==
  LET kept == {i \in DOMAIN list : list[i].targetName # name}
  IN [k \in 1..Cardinality(kept) |->
        list[CHOOSE j \in kept : Cardinality({i \in kept : i <= j}) = k]]

\* G1 is G with one more node, a copy of source that has target for its
\* peer name; source and the other nodes are as they were.
VirtualNodeOf(G, G1, source, name, target) ==
  LET new == G.nodeCounter
      old == G.reversedNodes[source]
      copy == G1.reversedNodes[new]
      listed(H) == UNION {{<<H.nodes[i].name, H.nodes[i].version,
                             H.nodes[i].list[j]>> :
                               j \in DOMAIN H.nodes[i].list} :
                            i \in DOMAIN H.nodes}
  IN \* exactly one new node
     /\ new \notin DOMAIN G.reversedNodes
     /\ DOMAIN G1.reversedNodes = (DOMAIN G.reversedNodes) \cup {new}
     /\ G1.nodeCounter = new + 1
     /\ listed(G1) = listed(G) \cup
                       {<<old.name, old.version,
                          [id |-> new, peerDeps |-> copy.peerDeps,
                           isLocal |-> old.isLocal]>>}
     \* with the name, version and isLocal of source
     /\ copy.name = old.name
     /\ copy.version = old.version
     /\ copy.isLocal = old.isLocal
     \* its peerDeps are those of source and name -> target
     /\ DOMAIN copy.peerDeps = (DOMAIN old.peerDeps) \cup {name}
     /\ copy.peerDeps[name] = target
     /\ \A n \in (DOMAIN old.peerDeps) \ {name} :
          copy.peerDeps[n] = old.peerDeps[n]
     \* its links are those of source and target
     /\ Range(G1.links[new]) = Range(GetOrEmpty(G.links, source)) \cup {target}
     \* its pending peers are those of source that are not named name
     /\ G1.peerLinks[new] = Without(GetOrEmpty(G.peerLinks, source), name)
     \* source and every other node keep their links, peerDeps and pending
     \* peers
     /\ DOMAIN G1.links = (DOMAIN G.links) \cup {new}
     /\ \A k \in DOMAIN G.links : G1.links[k] = G.links[k]
     /\ \A k \in DOMAIN G.reversedNodes :
          G1.reversedNodes[k] = G.reversedNodes[k]
     /\ DOMAIN G1.peerLinks = (DOMAIN G.peerLinks) \cup {new}
     /\ \A k \in DOMAIN G.peerLinks : G1.peerLinks[k] = G.peerLinks[k]

(* C34: createVirtualNode(source, name, target) creates exactly one node,
   with the name, version and isLocal of source, peerDeps those of source
   plus name -> target, forward links those of source plus target, and
   pending peers those of source without the entries named name; the links,
   peerDeps and pending peers of source and the forward links of every other
   node are as before the call.  Stated for every call the loop makes. *)
C34_CreateVirtualNodeEffect ==
  CreateCall =>
    LET peerDep == Head(peerDeps)
        target == resolveChild(graph, peerDep, FailOnMissing).id
    IN VirtualNodeOf(graph,
                     createVirtualNode(graph, peerDep.sourceId,
                                       peerDep.targetName, target),
                     peerDep.sourceId, peerDep.targetName, target)

\* createVirtualNode is called for a source that has forward links and two
\* or more pending peers, one of them the peer that is fulfilled.
C34_Witness ==
  /\ CreateCall
  /\ GetOrEmpty(graph.links, Head(peerDeps).sourceId) # << >>
  /\ Len(graph.peerLinks[Head(peerDeps).sourceId]) >= 2
  /\ Without(graph.peerLinks[Head(peerDeps).sourceId],
             Head(peerDeps).targetName) # << >>

-----------------------------------------------------------------------------
(* peerDeps and the links of a node *)

\* The entry name -> id of the peerDeps of node n is a link of n: n has a
\* forward link to id, id is named name, and n has no other child of that
\* name.
PeerDepIsLink(G, n, name) ==
  LET id == G.reversedNodes[n].peerDeps[name]
      children == Range(GetOrEmpty(G.links, n))
  IN /\ id \in children
     /\ id \in DOMAIN G.reversedNodes
     /\ NameOf(G, id) = name
     /\ \A c \in children : NameOf(G, c) = name => c = id

PeerDepsAreLinks(G) ==
  \A n \in DOMAIN G.reversedNodes :
    \A name \in DOMAIN G.reversedNodes[n].peerDeps : PeerDepIsLink(G, n, name)

(* C35: in every state of createDependencyGraph, and so in the graph it
   ends with, every entry name -> id of the peerDeps of a node is a forward
   link of that node to the node id, which is named name, and the node has
   no other child of that name. *)
C35_PeerDepsAreLinks == PeerDepsAreLinks(graph)

-----------------------------------------------------------------------------
(* Copies of a package in the returned graph *)

\* Two nodes of the returned graph are copies of one package.
Copies(a, b) ==
  /\ a # b
  /\ OutNode(a).name = OutNode(b).name
  /\ OutNode(a).version = OutNode(b).version

(* C36: in every returned graph two distinct nodes with the same name and
   version differ in their sets of link targets. *)
C36_CopiesDifferInTargets ==
  Returned =>
    \A a \in OutIds : \A b \in OutIds :
      Copies(a, b) => OutChildren(a) # OutChildren(b)

-----------------------------------------------------------------------------
(* Children of one name *)

\* No node of G has two forward children with the same name.
OneChildPerName(G) ==
  \A n \in DOMAIN G.links :
    \A c \in Range(G.links[n]) : \A d \in Range(G.links[n]) :
      NameOf(G, c) = NameOf(G, d) => c = d

\* An iteration of the loop keeps it so.
KeepsOneChildPerName ==
  (pc = "loop" /\ OneChildPerName(graph)) => OneChildPerName(graph')

\* No source of the returned graph has two targets with the same name.
OneTargetPerName ==
  \A a \in OutIds : \A c \in OutChildren(a) : \A d \in OutChildren(a) :
    OutNode(c).name = OutNode(d).name => c = d

\* The graph that is returned passes findDependenciesWithSameName.
ReturnedOneTargetPerName ==
  (Returned /\ OneChildPerName(graph)) => OneTargetPerName

(* C37: when no node has two forward children of one name after the
   dependency passes, none has after any step of the peer resolution, and
   in the returned graph no source has two distinct targets of one name. *)
C37_OneChildPerName ==
  /\ [][KeepsOneChildPerName]_vars
  /\ []ReturnedOneTargetPerName

\* A graph is returned after a parent was rewired to a virtual node; no node
\* has two children of one name and some source has two targets or more.
C37_Witness ==
  /\ Returned
  /\ OneChildPerName(graph)
  /\ graph.nodeCounter > Len(manifests)
  /\ \E p \in processed : p.tag = "id"
  /\ \E a \in OutIds : Cardinality(OutChildren(a)) >= 2

-----------------------------------------------------------------------------
(* The paths that linkNodes and createBins write *)

\* The path of the symlink that linkNodes makes for a link of the graph
\* with its self-links.
LinkPath(link) ==
  join(Dest(FindNode(inGraph, link.source)),
       <<"node_modules">> \o NameSegments(FindNode(inGraph, link.target).name))

\* No two links of the graph with its self-links have the same path.
LinksApart ==
  \A l \in DOMAIN OnDisk.links : \A m \in DOMAIN OnDisk.links :
    l # m => LinkPath(OnDisk.links[l]) # LinkPath(OnDisk.links[m])

\* The shims createBins makes: a link of the graph with its self-links and
\* a bin of its target whose file is on disk.
ShimCreations ==
  {t \in (DOMAIN OnDisk.links) \X (1..2) :
     /\ t[2] \in DOMAIN BinsOf(t[1])
     /\ Exists(fs, BinLoc(t))}

\* No two of them have the same path.
ShimsApart ==
  \A t \in ShimCreations : \A u \in ShimCreations :
    t # u => BinLink(t) # BinLink(u)

(* C38: for every input that passes validation no two symlinks that
   linkNodes makes, the self-links among them, have the same path, and when
   ignoreBinConflicts is not set no two shims that createBins makes have
   the same path. *)
C38_NoTwoOperationsOnePath ==
  Validated =>
    /\ LinksApart
    /\ (ipc = "createBins" /\ ~Truthy(ignoreBinConflicts)) => ShimsApart

-----------------------------------------------------------------------------
(* The root components of the tree runScripts makes *)

\* runScripts was called: the tree was made and handed to executeTree.
TreeHandedOver == ipc \in {"executeTree", "batchPromises"}

\* The components with a node that is installed in place.
InPlaceComponents ==
  {c \in DOMAIN Tree.components : Members(c) \cap KeptInPlace # {}}

(* C39: in the tree that runScripts hands to executeTree every component
   with a node kept in place is a root component, so with such a node in
   the graph rootComponents is not empty. *)
C39_InPlaceComponentsAreRoots ==
  TreeHandedOver =>
    /\ InPlaceComponents \subseteq Range(Tree.rootComponents)
    /\ KeptInPlace # {} => Tree.rootComponents # << >>

-----------------------------------------------------------------------------
(* The provider resolveChild chooses *)

\* The places among the forward children of the parent of an entry that
\* hold a node named as the peer.
NamedChildren(peerDep) ==
  LET siblings == GetOrEmpty(graph.links, peerDep.parentId)
  IN {i \in DOMAIN siblings : NameOf(graph, siblings[i]) = peerDep.targetName}

\* The entry at the head of the queue is not stale: resolveChild is called.
Answer == resolveChild(graph, Head(peerDeps), FailOnMissing)
Called == Iterating /\ ~IsStale(graph, Head(peerDeps))

\* The provider is named as the peer; it is the first child of the parent
\* of that name or, when the parent has none, the parent itself; without
\* either there is no provider.
ProviderIsChildOrParent ==
  Called =>
    LET peerDep == Head(peerDeps)
        siblings == GetOrEmpty(graph.links, peerDep.parentId)
        named == NamedChildren(peerDep)
    IN /\ Answer.tag = "id" =>
            /\ NameOf(graph, Answer.id) = peerDep.targetName
            /\ IF named # {}
               THEN Answer.id = siblings[CHOOSE i \in named :
                                             \A j \in named : i <= j]
               ELSE Answer.id = peerDep.parentId
       /\ (named = {} /\ NameOf(graph, peerDep.parentId) # peerDep.targetName)
            => Answer.tag # "id"

\* Without a provider the iteration adds no link and no node.
NoProviderNoLink ==
  (Called /\ Answer.tag # "id") => graph' = graph

(* C40: the provider chosen for a pending peer is a node named as the peer
   that is a forward child of the parent, the first of that name, or else
   the parent itself; no other node of the graph is chosen, and when
   neither exists no link is added for the peer. *)
C40_ProviderIsChildOrParent ==
  /\ []ProviderIsChildOrParent
  /\ [][NoProviderNoLink]_vars

\* A parent was chosen as the provider of its child's peer, and the entry
\* at the head of the queue has no provider although the graph has a node
\* named as its peer.
C40_Witness ==
  /\ Called
  /\ Answer.tag \in {"failed", "retryLater", "throw"}
  /\ \E n \in DOMAIN graph.reversedNodes :
       NameOf(graph, n) = Head(peerDeps).targetName
  /\ \E p \in processed : p.tag = "id" /\ p.provider = p.entry.parentId

=============================================================================
